---- MODULE Spec2Model ----
(***************************************************************************)
(* GitHub reporter agent: the URL parser; the fetchers of the repository   *)
(* statistics, the language breakdown, the commit activity, the good first *)
(* issues and the details of an issue; the chart builders; the             *)
(* visualization tool and the report workflow that chain them; the         *)
(* classification of an issue.                                             *)
(*                                                                         *)
(* Strings the code inspects character by character (the repository URL)   *)
(* are sequences of one-character strings.  An invocation is one           *)
(* asynchronous call chain; its position is pc, its outbound HTTP calls    *)
(* and the responses they got are recorded in calls, its outcome (a        *)
(* returned value or a thrown error) in result.                            *)
(***************************************************************************)
EXTENDS Integers, Sequences, FiniteSets, TLC

VARIABLES
    op,            \* the operation invoked
    repoUrl,       \* its input: the repository URL
    token,         \* process.env.GITHUB_TOKEN ("" when unset)
    tz,            \* local time zone of the process, minutes east of UTC
    pc,            \* position in the call chain
    ident,         \* {owner, repo} as parsed
    repoData,      \* parsed body of the metadata call
    contributors,  \* the local variable contributors
    openPRs,       \* the local variable openPRs
    closedPRs,     \* the local variable closedPRs
    calls,         \* HTTP calls issued so far, each with its response
    result,        \* what the invocation returned or threw
    tool,          \* the tool or workflow that runs the operation ("none": called on its own)
    repoStats,     \* the statistics record a tool or workflow holds
    languages,     \* the language breakdown the visualization tool holds
    llm,           \* outcome of the language-model call of the workflow
    commitActivity,\* the commit series the visualization tool holds
    report,        \* the markdown report, section by section
    issueNumber,   \* the issue number given to fetchIssueDetails
    input          \* the argument of a pure function

\* The state of the callers and of the pure functions.
outer == <<tool, repoStats, languages, commitActivity, llm, report, issueNumber, input>>

vars == <<op, repoUrl, token, tz, pc, ident, repoData, contributors,
          openPRs, closedPRs, calls, result, outer>>

----------------------------------------------------------------------------
(* Bounds of the model *)

MaxTokens == 5
MaxContributors == 4
MaxPulls == 3
MaxWeeks == 3

----------------------------------------------------------------------------
(* Characters and strings *)

Slash == "/"

\* Characters the regular expression's "." does not match.
LineTerminators == {"\n", "\r"}

HttpLit == <<"h", "t", "t", "p">>
HostLit == <<":", "/", "/", "g", "i", "t", "h", "u", "b", ".", "c", "o", "m", "/">>
GitSuffix == <<".", "g", "i", "t">>

RECURSIVE Flatten(_)
Flatten(ss) == IF ss = <<>> THEN <<>> ELSE Head(ss) \o Flatten(Tail(ss))

\* The string s continues with lit at position i.
HasAt(s, i, lit) ==
    /\ i + Len(lit) - 1 <= Len(s)
    /\ \A k \in 1..Len(lit) : s[i + k - 1] = lit[k]

\* End (exclusive) of the longest run of non-slash characters from i: [^/]+
RECURSIVE RunEnd(_, _)
RunEnd(s, i) ==
    IF i > Len(s) \/ s[i] = Slash THEN i ELSE RunEnd(s, i + 1)

\* As SuffixMatches, with a "." that matches line terminators too.
SuffixMatchesMutAnyChar(s, i) ==
    \/ i = Len(s) + 1
    \/ i <= Len(s) /\ s[i] = Slash

\* (?:\/.*)?$ at position i: the end, or a slash and no line terminator after it.
SuffixMatches(s, i) ==
    \/ i = Len(s) + 1
    \/ /\ i <= Len(s)
       /\ s[i] = Slash
       /\ \A k \in (i + 1)..Len(s) : s[k] \notin LineTerminators

\* url.match(githubRegex): the two capture groups, or no match.
\*   /^https?:\/\/github\.com\/([^/]+)\/([^/]+)(?:\/.*)?$/
MatchGitHubRegex(s) ==
    IF ~HasAt(s, 1, HttpLit) THEN [matched |-> FALSE]
    ELSE
      LET p == IF HasAt(s, 5, <<"s">>) THEN 6 ELSE 5
      IN  IF ~HasAt(s, p, HostLit) THEN [matched |-> FALSE]
          ELSE
            LET o1 == p + Len(HostLit)
                o2 == RunEnd(s, o1)
                r1 == o2 + 1
                r2 == RunEnd(s, r1)
            IN  IF /\ o2 > o1
                   /\ o2 <= Len(s)
                   /\ r2 > r1
                   /\ SuffixMatches(s, r2)
                THEN [matched |-> TRUE,
                      g1 |-> SubSeq(s, o1, o2 - 1),
                      g2 |-> SubSeq(s, r1, r2 - 1)]
                ELSE [matched |-> FALSE]

\* match[2].replace(/\.git$/, "")
StripGitSuffix(r) ==
    IF Len(r) >= Len(GitSuffix) /\ HasAt(r, Len(r) - Len(GitSuffix) + 1, GitSuffix)
    THEN SubSeq(r, 1, Len(r) - Len(GitSuffix))
    ELSE r

InvalidUrlError == [status |-> "error", error |-> "InvalidUrl"]

\* parseGitHubUrl: the identity, or the thrown invalid-URL error.
parseGitHubUrl(s) ==
    LET m == MatchGitHubRegex(s)
    IN  IF ~m.matched THEN InvalidUrlError
        ELSE [status |-> "ok", owner |-> m.g1, repo |-> StripGitSuffix(m.g2)]

----------------------------------------------------------------------------
(* Inputs of the parser: a scheme-and-host prefix followed by up to        *)
(* MaxTokens path tokens.                                                  *)

UrlPrefixes ==
    { <<"h", "t", "t", "p", "s", ":", "/", "/", "g", "i", "t", "h", "u", "b", ".", "c", "o", "m", "/">>,
      <<"h", "t", "t", "p", ":", "/", "/", "g", "i", "t", "h", "u", "b", ".", "c", "o", "m", "/">>,
      <<"g", "i", "t", "h", "u", "b", ".", "c", "o", "m", "/">>,
      <<"h", "t", "t", "p", "s", ":", "/", "/", "g", "i", "t", "l", "a", "b", ".", "c", "o", "m", "/">>,
      <<"h", "t", "t", "p", "s", ":", "/", "/", "g", "i", "t", "h", "u", "b", "x", "c", "o", "m", "/">>,
      <<"h", "t", "t", "p", "s", "s", ":", "/", "/", "g", "i", "t", "h", "u", "b", ".", "c", "o", "m", "/">> }

PathTokens == { <<"/">>, <<"a">>, GitSuffix, <<"\n">> }

UrlInputs ==
    { p \o Flatten(t) :
        p \in UrlPrefixes,
        t \in UNION { [1..n -> PathTokens] : n \in 0..MaxTokens } }

\* The operation has no caller.
IdleCallers ==
    /\ tool = "none"
    /\ repoStats = [status |-> "none"]
    /\ languages = [status |-> "none"]
    /\ commitActivity = [status |-> "none"]
    /\ llm = [status |-> "none"]
    /\ report = [status |-> "none"]

\* No caller and no pure-function argument.
IdleOuter ==
    /\ IdleCallers
    /\ issueNumber = 0
    /\ input = [status |-> "none"]

\* The locals of a fetch before its first statement.
IdleFetch ==
    /\ repoData = [kind |-> "none"]
    /\ contributors = [kind |-> "array", items |-> <<>>]
    /\ openPRs = 0
    /\ closedPRs = 0
    /\ calls = <<>>
    /\ result = [status |-> "none"]

IdleLocals ==
    /\ IdleOuter
    /\ ident = [status |-> "none"]
    /\ IdleFetch

Idle ==
    /\ token = ""
    /\ tz = 0
    /\ IdleLocals

InitParse ==
    /\ op = "parseGitHubUrl"
    /\ repoUrl \in UrlInputs
    /\ pc = "start"
    /\ Idle

\* A call of parseGitHubUrl on its own.
Parse ==
    /\ op = "parseGitHubUrl"
    /\ pc = "start"
    /\ result' = parseGitHubUrl(repoUrl)
    /\ pc' = "done"
    /\ UNCHANGED <<outer, op, repoUrl, token, tz, ident, repoData, contributors,
                   openPRs, closedPRs, calls>>

NextParse == Parse

SpecParse == InitParse /\ [][NextParse]_vars

----------------------------------------------------------------------------
(* HTTP responses.  fetch() either rejects (a network error) or resolves   *)
(* to a response with a status and a body; response.json() either rejects  *)
(* (the body is not JSON) or resolves to the JSON value.                   *)

NetworkError == [kind |-> "neterr"]

Unparseable == [kind |-> "unparseable"]

\* A JSON value that is not an array, such as {"message": "..."}.
JsonObject == [kind |-> "object"]

JsonArray(items) == [kind |-> "array", items |-> items]

HttpResponse(status, body) == [kind |-> "http", status |-> status, body |-> body]

FailureStatuses == {304, 403, 404, 500}

\* response.ok
Ok(resp) == resp.kind = "http" /\ resp.status >= 200 /\ resp.status <= 299

FailedResponses ==
    {NetworkError} \cup {HttpResponse(st, Unparseable) : st \in FailureStatuses}

SeqsUpTo(S, n) == UNION { [1..k -> S] : k \in 0..n }

\* The responses a call can get: any of `all` for an operation called on its
\* own, one of `few` inside a tool or a workflow, which chains several calls.
Served(all, few) == IF tool = "none" THEN all ELSE few

NullValue == [null |-> TRUE]

\* Bodies of the repository-metadata call (GitHubRepoResponse).
MetaBodies ==
    { [kind |-> "object", full_name |-> "a/b", stargazers_count |-> n[1],
       forks_count |-> n[2], open_issues_count |-> n[3], license |-> li] :
        n \in {<<0, 0, 0>>, <<0, 200, 3>>, <<1500, 200, 3>>},
        li \in {NullValue, [null |-> FALSE, name |-> "MIT License", spdx_id |-> "MIT"]} }

MetaResponses ==
    FailedResponses \cup {HttpResponse(200, b) : b \in MetaBodies \cup {Unparseable}}

MetaResponsesInTool ==
    {HttpResponse(404, Unparseable)} \cup {HttpResponse(200, b) : b \in MetaBodies}

\* Entries of the contributors call (GitHubContributor).
ContributorEntries ==
    { [login |-> "alice", contributions |-> 10, html_url |-> "https://github.com/alice"],
      [login |-> "bob", contributions |-> 5, html_url |-> "https://github.com/bob"] }

ContributorsResponses ==
    FailedResponses
      \cup {HttpResponse(200, b) : b \in {Unparseable, JsonObject}}
      \cup {HttpResponse(200, JsonArray(a)) : a \in SeqsUpTo(ContributorEntries, MaxContributors)}

ContributorsResponsesInTool ==
    { NetworkError, HttpResponse(500, Unparseable), HttpResponse(200, JsonObject),
      HttpResponse(200, JsonArray(<<[login |-> "alice", contributions |-> 10,
                                     html_url |-> "https://github.com/alice"]>>)) }

\* Entries of the pull-requests call (GitHubPullRequest).
PullEntries == { [state |-> st] : st \in {"open", "closed", "merged"} }

PullsResponses ==
    FailedResponses
      \cup {HttpResponse(200, b) : b \in {Unparseable, JsonObject}}
      \cup {HttpResponse(200, JsonArray(a)) : a \in SeqsUpTo(PullEntries, MaxPulls)}

PullsResponsesInTool ==
    { NetworkError, HttpResponse(500, Unparseable), HttpResponse(200, JsonArray(<<>>)),
      HttpResponse(200, JsonArray(<<[state |-> "open"], [state |-> "closed"]>>)) }

\* The record of one HTTP call: its endpoint, the repository it names,
\* whether it carries an Authorization header, and the response it got.
Call(endpoint, id, auth, resp) ==
    [endpoint |-> endpoint, owner |-> id.owner, repo |-> id.repo,
     authorized |-> auth, response |-> resp]

Thrown(e) == [status |-> "error", error |-> e]

Returned(v) == [status |-> "ok", value |-> v]

----------------------------------------------------------------------------
(* The statistics fetch: getGitHubRepoStats (the tool) and the workflow    *)
(* step fetchRepoData.                                                      *)

StatsOps == {"getGitHubRepoStats", "fetchRepoData"}

TopContributors == 3

Min(a, b) == IF a < b THEN a ELSE b

\* As MetaFailure, with a 403 reported as a generic upstream failure.
MetaFailureMutNo403(resp) ==
    IF resp.status = 404 THEN Thrown("RepositoryNotFound")
    ELSE [status |-> "error", error |-> "Upstream", httpStatus |-> resp.status]

\* The error thrown for a metadata response that is not ok.
MetaFailure(resp) ==
    IF resp.status = 404 THEN Thrown("RepositoryNotFound")
    ELSE IF resp.status = 403 THEN Thrown("RateLimited")
    ELSE [status |-> "error", error |-> "Upstream", httpStatus |-> resp.status]

\* As TopSlice, without the truncation.
TopSliceMutAll(items) == items

\* contributors.slice(0, 3)
TopSlice(items) == SubSeq(items, 1, Min(TopContributors, Len(items)))

\* .map(contributor => ({username, contributions, profileUrl}))
MapContributors(items) ==
    [i \in 1..Len(items) |->
        [username |-> items[i].login,
         contributions |-> items[i].contributions,
         profileUrl |-> items[i].html_url]]

\* prs.filter(pr => pr.state === st).length
RECURSIVE CountState(_, _)
CountState(prs, st) ==
    IF prs = <<>> THEN 0
    ELSE (IF Head(prs).state = st THEN 1 ELSE 0) + CountState(Tail(prs), st)

\* As PullRequestCounts, with the total taken from the open count alone.
PullRequestCountsMutOpenOnly(o, c) == [open |-> o, closed |-> c, total |-> o]

\* pullRequests: {open, closed, total: openPRs + closedPRs}
PullRequestCounts(o, c) == [open |-> o, closed |-> c, total |-> o + c]

\* The statistics record built from the metadata and the locals.
StatsRecord(data, contribs, o, c) ==
    [fullName |-> data.full_name,
     stars |-> data.stargazers_count,
     forks |-> data.forks_count,
     openIssues |-> data.open_issues_count,
     contributors |-> contribs,
     pullRequests |-> PullRequestCounts(o, c),
     license |-> IF data.license.null THEN NullValue
                 ELSE [null |-> FALSE, name |-> data.license.name,
                       spdxId |-> data.license.spdx_id]]

\* URLs given to the fetchers.
FetchUrls ==
    { <<"h", "t", "t", "p", "s", ":", "/", "/", "g", "i", "t", "h", "u", "b", ".", "c", "o", "m", "/", "a", "/", "b">>,
      <<"h", "t", "t", "p", ":", "/", "/", "g", "i", "t", "h", "u", "b", ".", "c", "o", "m", "/", "a", "/", "b", ".", "g", "i", "t", "/", "a">>,
      <<"h", "t", "t", "p", "s", ":", "/", "/", "g", "i", "t", "l", "a", "b", ".", "c", "o", "m", "/", "a", "/", "b">> }

InitStats ==
    /\ op \in StatsOps
    /\ repoUrl \in FetchUrls
    /\ pc = "start"
    /\ Idle

\* const { owner, repo } = parseGitHubUrl(repoUrl);
StatsParse ==
    /\ op \in StatsOps
    /\ pc = "start"
    /\ LET id == parseGitHubUrl(repoUrl)
       IN  IF id.status = "ok"
           THEN /\ ident' = id
                /\ pc' = "meta"
                /\ UNCHANGED result
           ELSE /\ result' = id
                /\ pc' = "done"
                /\ UNCHANGED ident
    /\ UNCHANGED <<outer, op, repoUrl, token, tz, repoData, contributors, openPRs,
                   closedPRs, calls>>

\* The metadata call, the check of its status and the parse of its body.
StatsFetchMeta ==
    /\ op \in StatsOps
    /\ pc = "meta"
    /\ \E resp \in Served(MetaResponses, MetaResponsesInTool) :
         /\ calls' = Append(calls, Call("repo", ident, FALSE, resp))
         /\ IF resp.kind = "neterr"
            THEN /\ result' = Thrown("Network")
                 /\ pc' = "done"
                 /\ UNCHANGED repoData
            ELSE IF ~Ok(resp)
            THEN /\ result' = MetaFailure(resp)
                 /\ pc' = "done"
                 /\ UNCHANGED repoData
            ELSE IF resp.body.kind = "unparseable"
            THEN /\ result' = Thrown("BodyParse")
                 /\ pc' = "done"
                 /\ UNCHANGED repoData
            ELSE /\ repoData' = resp.body
                 /\ pc' = "contributors"
                 /\ UNCHANGED result
    /\ UNCHANGED <<outer, op, repoUrl, token, tz, ident, contributors, openPRs, closedPRs>>

\* The local variable contributors after the try block of the contributors
\* call.  The tool assigns the parsed body to contributors as it is; the
\* workflow step slices and maps it inside the try block, so that a body that
\* is no array is caught there.
ContributorsAfter(impl, resp) ==
    IF Ok(resp) /\ resp.body.kind # "unparseable"
    THEN IF impl = "getGitHubRepoStats" THEN resp.body
         ELSE IF resp.body.kind = "array"
              THEN JsonArray(MapContributors(TopSlice(resp.body.items)))
              ELSE JsonArray(<<>>)
    ELSE JsonArray(<<>>)

\* The return statement.  The tool slices and maps contributors there,
\* outside every try block: a value without slice() is a thrown TypeError.
StatsReturn(impl, data, contribs, o, c) ==
    IF impl = "getGitHubRepoStats"
    THEN IF contribs.kind = "array"
         THEN Returned(StatsRecord(data, MapContributors(TopSlice(contribs.items)), o, c))
         ELSE Thrown("TypeError")
    ELSE Returned(StatsRecord(data, contribs.items, o, c))

\* The contributors call inside its try block.
StatsFetchContributors ==
    /\ op \in StatsOps
    /\ pc = "contributors"
    /\ \E resp \in Served(ContributorsResponses, ContributorsResponsesInTool) :
         /\ calls' = Append(calls, Call("contributors", ident, FALSE, resp))
         /\ contributors' = ContributorsAfter(op, resp)
    /\ pc' = "pulls"
    /\ UNCHANGED <<outer, op, repoUrl, token, tz, ident, repoData, openPRs, closedPRs, result>>

\* The pull-requests call inside its try block, then the return statement.
StatsFetchPulls ==
    /\ op \in StatsOps
    /\ pc = "pulls"
    /\ \E resp \in Served(PullsResponses, PullsResponsesInTool) :
         /\ calls' = Append(calls, Call("pulls", ident, FALSE, resp))
         /\ LET counted == Ok(resp) /\ resp.body.kind = "array"
                o == IF counted THEN CountState(resp.body.items, "open") ELSE openPRs
                c == IF counted THEN CountState(resp.body.items, "closed") ELSE closedPRs
            IN  /\ openPRs' = o
                /\ closedPRs' = c
                /\ result' = StatsReturn(op, repoData, contributors, o, c)
    /\ pc' = "done"
    /\ UNCHANGED <<outer, op, repoUrl, token, tz, ident, repoData, contributors>>

NextStats ==
    \/ StatsParse
    \/ StatsFetchMeta
    \/ StatsFetchContributors
    \/ StatsFetchPulls

SpecStats == InitStats /\ [][NextStats]_vars

----------------------------------------------------------------------------
(* The language fetch: getRepositoryLanguages.                             *)

MaxLanguages == 3

LanguageNames == {"TypeScript", "JavaScript", "CSS"}

\* A language mapping (GitHubLanguage): its entries in key order.
Languages(entries) == [kind |-> "languages", entries |-> entries]

LanguageBodies ==
    { Languages(e) :
        e \in { x \in SeqsUpTo([name : LanguageNames, bytes : {0, 2048}], MaxLanguages) :
                  \A i, j \in DOMAIN x : i # j => x[i].name # x[j].name } }

LanguagesResponses ==
    FailedResponses
      \cup {HttpResponse(200, Unparseable)}
      \cup {HttpResponse(200, b) : b \in LanguageBodies}

LanguagesResponsesInTool ==
    { HttpResponse(404, Unparseable), HttpResponse(200, Languages(<<>>)),
      HttpResponse(200, Languages(<<[name |-> "TypeScript", bytes |-> 2048]>>)),
      HttpResponse(200, Languages(<<[name |-> "TypeScript", bytes |-> 0]>>)) }

\* As LanguagesOutcome, with "return response.json()" not awaited inside the
\* try block: the rejection of json() escapes the catch.
LanguagesOutcomeMutNoAwait(resp) ==
    IF resp.kind = "neterr" THEN Returned(Languages(<<>>))
    ELSE IF ~Ok(resp) THEN Returned(Languages(<<>>))
    ELSE IF resp.body.kind = "unparseable" THEN Thrown("BodyParse")
    ELSE Returned(resp.body)

\* The try block of getRepositoryLanguages and its catch.
LanguagesOutcome(resp) ==
    IF resp.kind = "neterr" THEN Returned(Languages(<<>>))
    ELSE IF ~Ok(resp) THEN Returned(Languages(<<>>))
    ELSE IF resp.body.kind = "unparseable" THEN Returned(Languages(<<>>))
    ELSE Returned(resp.body)

InitLanguages ==
    /\ op = "getRepositoryLanguages"
    /\ repoUrl \in FetchUrls
    /\ pc = "start"
    /\ Idle

\* const { owner, repo } = parseGitHubUrl(repoUrl);
LanguagesParse ==
    /\ op = "getRepositoryLanguages"
    /\ pc = "start"
    /\ LET id == parseGitHubUrl(repoUrl)
       IN  IF id.status = "ok"
           THEN /\ ident' = id
                /\ pc' = "languages"
                /\ UNCHANGED result
           ELSE /\ result' = id
                /\ pc' = "done"
                /\ UNCHANGED ident
    /\ UNCHANGED <<outer, op, repoUrl, token, tz, repoData, contributors, openPRs,
                   closedPRs, calls>>

\* The languages call and what the function returns for it.
LanguagesFetch ==
    /\ op = "getRepositoryLanguages"
    /\ pc = "languages"
    /\ \E resp \in Served(LanguagesResponses, LanguagesResponsesInTool) :
         /\ calls' = Append(calls, Call("languages", ident, FALSE, resp))
         /\ result' = LanguagesOutcome(resp)
    /\ pc' = "done"
    /\ UNCHANGED <<outer, op, repoUrl, token, tz, ident, repoData, contributors,
                   openPRs, closedPRs>>

NextLanguages == LanguagesParse \/ LanguagesFetch

SpecLanguages == InitLanguages /\ [][NextLanguages]_vars

----------------------------------------------------------------------------
(* The commit-activity fetch: getRepoCommitActivity.                       *)

\* Time zones of the process, in minutes east of UTC.
TzOffsets == {-300, 0, 330}

Tokens == {"", "ghp_token"}

\* Week timestamps (seconds since the epoch, Sundays 00:00 UTC):
\* 2024-09-01, 2024-09-08, 2024-12-29.
WeekStamps == {1725148800, 1725753600, 1735430400}

WeekEntry(w, t) == [kind |-> "week", week |-> w, total |-> t]

\* An entry whose property access throws (null).
NullEntry == [kind |-> "null"]

\* An entry without week and total, such as {}.
EmptyEntry == [kind |-> "empty"]

ActivityEntries ==
    {WeekEntry(w, t) : w \in WeekStamps, t \in {0, 3, 5}} \cup {NullEntry, EmptyEntry}

ActivityResponses ==
    FailedResponses
      \cup {HttpResponse(200, Unparseable), HttpResponse(202, JsonObject)}
      \cup {HttpResponse(200, JsonArray(a)) : a \in SeqsUpTo(ActivityEntries, MaxWeeks)}

ActivityResponsesInTool ==
    { NetworkError, HttpResponse(200, JsonArray(<<>>)),
      HttpResponse(200, JsonArray(<<WeekEntry(1725148800, 5)>>)),
      HttpResponse(200, JsonArray(<<WeekEntry(1725148800, 0)>>)) }

\* JavaScript numbers: a finite value or NaN.
Num(n) == [nan |-> FALSE, n |-> n]

NaN == [nan |-> TRUE, n |-> 0]

\* a + b
Plus(a, b) == IF a.nan \/ b.nan THEN NaN ELSE Num(a.n + b.n)

\* x || 0
OrZero(x) == IF x.nan \/ x.n = 0 THEN Num(0) ELSE x

SecondsPerDay == 86400

\* Year and month of the day that is `days` days after 1970-01-01
\* (proleptic Gregorian calendar).
CivilFromDays(days) ==
    LET z == days + 719468
        era == z \div 146097
        doe == z - era * 146097
        yoe == (doe - doe \div 1460 + doe \div 36524 - doe \div 146096) \div 365
        doy == doe - (365 * yoe + yoe \div 4 - yoe \div 100)
        mp == (5 * doy + 2) \div 153
        m == IF mp < 10 THEN mp + 3 ELSE mp - 9
        y == yoe + era * 400 + (IF m <= 2 THEN 1 ELSE 0)
    IN  [year |-> y, month |-> m]

\* str.padStart(2, '0') of a month number's decimal form
PadStart2(m) == IF m < 10 THEN "0" \o ToString(m) ELSE ToString(m)

\* const d = new Date(w.week * 1000);
\* `${d.getFullYear()}-${(d.getMonth() + 1).toString().padStart(2, '0')}`
\* in the local time of the process.  (The division by the seconds of a day
\* stands for the one by its milliseconds, of the timestamp times 1000.)
MonthLabel(week, zone) ==
    LET d == CivilFromDays((week + zone * 60) \div SecondsPerDay)
    IN  ToString(d.year) \o "-" \o PadStart2(d.month)

\* The month key and the total one entry contributes.
EntryMonth(w, zone) == IF w.kind = "week" THEN MonthLabel(w.week, zone) ELSE "NaN-NaN"

EntryTotal(w) == IF w.kind = "week" THEN Num(w.total) ELSE NaN

\* As AddToMonth, with every week appended as a bucket of its own.
AddToMonthMutAppend(monthly, key, total) ==
    Append(monthly, [key |-> key, value |-> total])

\* monthly[month] = (monthly[month] || 0) + w.total, the object's keys kept
\* in insertion order.
AddToMonth(monthly, key, total) ==
    IF \E i \in DOMAIN monthly : monthly[i].key = key
    THEN [i \in DOMAIN monthly |->
            IF monthly[i].key = key
            THEN [key |-> key, value |-> Plus(OrZero(monthly[i].value), total)]
            ELSE monthly[i]]
    ELSE Append(monthly, [key |-> key, value |-> Plus(Num(0), total)])

\* weeks.forEach(...), from the left
RECURSIVE AggregateByMonth(_, _, _)
AggregateByMonth(weeks, zone, monthly) ==
    IF weeks = <<>> THEN monthly
    ELSE AggregateByMonth(Tail(weeks), zone,
             AddToMonth(monthly, EntryMonth(Head(weeks), zone), EntryTotal(Head(weeks))))

EmptySeries == [labels |-> <<>>, data |-> <<>>]

\* As ActivityOutcome, with the aggregation outside the try block: an entry
\* whose property access throws fails the call.
ActivityOutcomeMutNoCatch(resp, zone) ==
    IF resp.kind = "neterr" THEN Returned(EmptySeries)
    ELSE IF ~Ok(resp) THEN Returned(EmptySeries)
    ELSE IF resp.body.kind = "unparseable" THEN Returned(EmptySeries)
    ELSE IF resp.body.kind # "array" \/ Len(resp.body.items) = 0 THEN Returned(EmptySeries)
    ELSE IF \E i \in DOMAIN resp.body.items : resp.body.items[i].kind = "null"
    THEN Thrown("TypeError")
    ELSE LET monthly == AggregateByMonth(resp.body.items, zone, <<>>)
         IN  Returned([labels |-> [i \in DOMAIN monthly |-> monthly[i].key],
                       data |-> [i \in DOMAIN monthly |-> monthly[i].value]])

\* The try block of getRepoCommitActivity and its catch.
ActivityOutcome(resp, zone) ==
    IF resp.kind = "neterr" THEN Returned(EmptySeries)
    ELSE IF ~Ok(resp) THEN Returned(EmptySeries)
    ELSE IF resp.body.kind = "unparseable" THEN Returned(EmptySeries)
    ELSE IF resp.body.kind # "array" \/ Len(resp.body.items) = 0 THEN Returned(EmptySeries)
    ELSE IF \E i \in DOMAIN resp.body.items : resp.body.items[i].kind = "null"
    THEN Returned(EmptySeries)
    ELSE LET monthly == AggregateByMonth(resp.body.items, zone, <<>>)
         IN  Returned([labels |-> [i \in DOMAIN monthly |-> monthly[i].key],
                       data |-> [i \in DOMAIN monthly |-> monthly[i].value]])

CommitUrls ==
    { <<"h", "t", "t", "p", "s", ":", "/", "/", "g", "i", "t", "h", "u", "b", ".", "c", "o", "m", "/", "a", "/", "b">>,
      <<"h", "t", "t", "p", "s", ":", "/", "/", "g", "i", "t", "l", "a", "b", ".", "c", "o", "m", "/", "a", "/", "b">> }

InitActivity ==
    /\ op = "getRepoCommitActivity"
    /\ repoUrl \in CommitUrls
    /\ token \in Tokens
    /\ tz \in TzOffsets
    /\ pc = "start"
    /\ IdleLocals

\* const { owner, repo } = parseGitHubUrl(repoUrl);
ActivityParse ==
    /\ op = "getRepoCommitActivity"
    /\ pc = "start"
    /\ LET id == parseGitHubUrl(repoUrl)
       IN  IF id.status = "ok"
           THEN /\ ident' = id
                /\ pc' = "activity"
                /\ UNCHANGED result
           ELSE /\ result' = id
                /\ pc' = "done"
                /\ UNCHANGED ident
    /\ UNCHANGED <<outer, op, repoUrl, token, tz, repoData, contributors, openPRs,
                   closedPRs, calls>>

\* The commit-activity call, with the Authorization header when the token is
\* set, and what the function returns for it.
ActivityFetch ==
    /\ op = "getRepoCommitActivity"
    /\ pc = "activity"
    /\ \E resp \in Served(ActivityResponses, ActivityResponsesInTool) :
         /\ calls' = Append(calls, Call("commit_activity", ident, token # "", resp))
         /\ result' = ActivityOutcome(resp, tz)
    /\ pc' = "done"
    /\ UNCHANGED <<outer, op, repoUrl, token, tz, ident, repoData, contributors,
                   openPRs, closedPRs>>

NextActivity == ActivityParse \/ ActivityFetch

SpecActivity == InitActivity /\ [][NextActivity]_vars

----------------------------------------------------------------------------
(* The good-first-issue fetch: getGoodFirstIssues.  The value of a label   *)
(* of an issue is a string, an object with a name, or null.                *)

MaxIssues == 3

\* A field that is absent.
Undefined == [kind |-> "undefined"]

StringLabel(s) == [type |-> "string", value |-> s]

ObjectLabel(s) == [type |-> "object", name |-> s]

NullLabel == [type |-> "null"]

\* An entry of the issues call; labels is Undefined when the field is absent.
IssueEntry(n, labels) ==
    [kind |-> "issue", number |-> n, title |-> "Fix typo",
     html_url |-> "https://github.com/a/b/issues", labels |-> labels, comments |-> 2]

IssueEntries ==
    { IssueEntry(7, JsonArray(<<StringLabel("bug"), ObjectLabel("good first issue")>>)),
      IssueEntry(8, Undefined),
      IssueEntry(9, JsonArray(<<NullLabel>>)),
      NullEntry }

IssuesResponses ==
    FailedResponses
      \cup {HttpResponse(200, b) : b \in {Unparseable, JsonObject}}
      \cup {HttpResponse(200, JsonArray(a)) : a \in SeqsUpTo(IssueEntries, MaxIssues)}

\* The issues of the list call inside the guide tool, with numbers of their
\* own.
GuideIssuePool ==
    << IssueEntry(7, JsonArray(<<StringLabel("bug"), ObjectLabel("good first issue")>>)),
       IssueEntry(8, Undefined),
       IssueEntry(12, JsonArray(<<ObjectLabel("good first issue")>>)),
       IssueEntry(15, Undefined),
       IssueEntry(21, Undefined) >>

IssuesResponsesInTool ==
    { NetworkError, HttpResponse(404, Unparseable),
      HttpResponse(200, JsonArray(<<IssueEntry(9, JsonArray(<<NullLabel>>))>>)),
      HttpResponse(200, JsonArray(<<GuideIssuePool[2], GuideIssuePool[1]>>)) }
      \cup { HttpResponse(200, JsonArray(SubSeq(GuideIssuePool, 1, k))) : k \in 0..MaxIssues }

\* The messages of the results without issues.
NotFoundMessage(id) == [text |-> "Repository not found.", owner |-> id.owner, repo |-> id.repo]

ForbiddenMessage == [text |-> "GitHub API rate limit exceeded or access denied."]

FailedMessage(status) == [text |-> "Failed to fetch issues", status |-> status]

NoIssuesMessage == [text |-> "There are currently no open 'good first issues' in this repository."]

ErrorMessage(e) == [text |-> "Error fetching issues", error |-> e]

\* { issues: [], repo, owner, message }
NoIssues(id, message) ==
    Returned([issues |-> <<>>, repo |-> id.repo, owner |-> id.owner, message |-> message])

\* (issue.labels || []).map(l => typeof l === 'string' ? l : l.name)
LabelNames(labels) ==
    IF labels = Undefined THEN <<>>
    ELSE [i \in 1..Len(labels.items) |->
            IF labels.items[i].type = "string" THEN labels.items[i].value
            ELSE labels.items[i].name]

\* The mapping of the issues throws a TypeError on a null issue and on a
\* null label.
MapThrows(items) ==
    \E i \in 1..Len(items) :
        \/ items[i].kind = "null"
        \/ /\ items[i].labels # Undefined
           /\ \E j \in 1..Len(items[i].labels.items) :
                 items[i].labels.items[j].type = "null"

\* issues.map(issue => ({title, url, labels, comments, number}))
MapIssues(items) ==
    [i \in 1..Len(items) |->
        [title |-> items[i].title,
         url |-> items[i].html_url,
         labels |-> LabelNames(items[i].labels),
         comments |-> items[i].comments,
         number |-> items[i].number]]

\* As IssuesOutcome, with the rate-limit case reported as a generic failure.
IssuesOutcomeMutNo403(id, resp) ==
    IF resp.kind = "neterr" THEN NoIssues(id, ErrorMessage("Network"))
    ELSE IF ~Ok(resp)
    THEN IF resp.status = 404 THEN NoIssues(id, NotFoundMessage(id))
         ELSE NoIssues(id, FailedMessage(resp.status))
    ELSE IF resp.body.kind = "unparseable" THEN NoIssues(id, ErrorMessage("BodyParse"))
    ELSE IF resp.body.kind # "array" \/ Len(resp.body.items) = 0
    THEN NoIssues(id, NoIssuesMessage)
    ELSE IF MapThrows(resp.body.items) THEN NoIssues(id, ErrorMessage("TypeError"))
    ELSE Returned([issues |-> MapIssues(resp.body.items), repo |-> id.repo,
                   owner |-> id.owner, message |-> Undefined])

\* What getGoodFirstIssues returns for a response: the try block with its
\* status checks, and the catch block for a rejected fetch, a body that is
\* not JSON and a TypeError of the mapping.
IssuesOutcome(id, resp) ==
    IF resp.kind = "neterr" THEN NoIssues(id, ErrorMessage("Network"))
    ELSE IF ~Ok(resp)
    THEN IF resp.status = 404 THEN NoIssues(id, NotFoundMessage(id))
         ELSE IF resp.status = 403 THEN NoIssues(id, ForbiddenMessage)
         ELSE NoIssues(id, FailedMessage(resp.status))
    ELSE IF resp.body.kind = "unparseable" THEN NoIssues(id, ErrorMessage("BodyParse"))
    ELSE IF resp.body.kind # "array" \/ Len(resp.body.items) = 0
    THEN NoIssues(id, NoIssuesMessage)
    ELSE IF MapThrows(resp.body.items) THEN NoIssues(id, ErrorMessage("TypeError"))
    ELSE Returned([issues |-> MapIssues(resp.body.items), repo |-> id.repo,
                   owner |-> id.owner, message |-> Undefined])

\* As TokenMissing, with the check never failing.
TokenMissingMutNever(t) == FALSE

\* !githubToken
TokenMissing(t) == t = ""

InitIssues ==
    /\ op = "getGoodFirstIssues"
    /\ repoUrl \in FetchUrls
    /\ token \in Tokens
    /\ tz = 0
    /\ pc = "start"
    /\ IdleLocals

\* if (!githubToken) throw new Error("GitHub token not set ...")
IssuesCheckToken ==
    /\ op = "getGoodFirstIssues"
    /\ pc = "start"
    /\ IF TokenMissing(token)
       THEN /\ result' = Thrown("MissingCredentials")
            /\ pc' = "done"
       ELSE /\ pc' = "parse"
            /\ UNCHANGED result
    /\ UNCHANGED <<outer, op, repoUrl, token, tz, ident, repoData, contributors,
                   openPRs, closedPRs, calls>>

\* const { owner, repo } = parseGitHubUrl(repoUrl), outside the try block.
IssuesParse ==
    /\ op = "getGoodFirstIssues"
    /\ pc = "parse"
    /\ LET id == parseGitHubUrl(repoUrl)
       IN  IF id.status = "ok"
           THEN /\ ident' = id
                /\ pc' = "fetch"
                /\ UNCHANGED result
           ELSE /\ result' = id
                /\ pc' = "done"
                /\ UNCHANGED ident
    /\ UNCHANGED <<outer, op, repoUrl, token, tz, repoData, contributors, openPRs,
                   closedPRs, calls>>

\* The issues call, with the Authorization header, and the return.
IssuesFetch ==
    /\ op = "getGoodFirstIssues"
    /\ pc = "fetch"
    /\ \E resp \in Served(IssuesResponses, IssuesResponsesInTool) :
         /\ calls' = Append(calls, Call("issues", ident, TRUE, resp))
         /\ result' = IssuesOutcome(ident, resp)
    /\ pc' = "done"
    /\ UNCHANGED <<outer, op, repoUrl, token, tz, ident, repoData, contributors,
                   openPRs, closedPRs>>

NextIssues == IssuesCheckToken \/ IssuesParse \/ IssuesFetch

SpecIssues == InitIssues /\ [][NextIssues]_vars

----------------------------------------------------------------------------
(* The issue-detail fetch: fetchIssueDetails(owner, repo, issueNumber).    *)
(* Titles and bodies of issues are sequences of one-character strings.     *)

DigitChars == <<"0", "1", "2", "3", "4", "5", "6", "7", "8", "9">>

\* The decimal digits of a natural number, as a template literal prints it.
RECURSIVE DecimalDigits(_)
DecimalDigits(n) ==
    IF n < 10 THEN <<DigitChars[n + 1]>>
    ELSE DecimalDigits(n \div 10) \o <<DigitChars[(n % 10) + 1]>>

IssueNumbers == {7, 42}

IssueTitles ==
    { <<"F", "i", "x", " ", "c", "r", "a", "s", "h">>,
      <<"U", "p", "d", "a", "t", "e", " ", "r", "e", "a", "d", "m", "e">> }

IssueBodies ==
    { <<>>,
      <<"a", "d", "d", " ", "a", " ", "t", "e", "s", "t">>,
      <<"s", "e", "e", " ", "d", "o", "c", "s">> }

\* Bodies of the issue-detail call.
IssueDetailBodies ==
    { [kind |-> "issue", title |-> t, body |-> b,
       labels |-> JsonArray(<<ObjectLabel("bug")>>), comments |-> 4] :
        t \in IssueTitles, b \in IssueBodies }

IssueDetailResponses ==
    FailedResponses
      \cup {HttpResponse(200, b) :
              b \in IssueDetailBodies \cup {Unparseable, JsonObject, JsonArray(<<>>)}}

\* `Issue #${issueNumber}`
PlaceholderTitle(n) == <<"I", "s", "s", "u", "e", " ", "#">> \o DecimalDigits(n)

\* "Unable to fetch issue details"
PlaceholderBody ==
    <<"U", "n", "a", "b", "l", "e", " ", "t", "o", " ", "f", "e", "t", "c", "h", " ", "i", "s", "s", "u", "e", " ", "d", "e", "t", "a", "i", "l", "s">>

\* As Placeholder, with a body that names a browser and a fix.
PlaceholderMutBrowserFix(n) ==
    [kind |-> "issue", title |-> PlaceholderTitle(n),
     body |-> <<"f", "i", "x", " ", "f", "i", "r", "e", "f", "o", "x">>,
     labels |-> JsonArray(<<>>), comments |-> 0]

\* The record returned when the call has failed.
Placeholder(n) ==
    [kind |-> "issue", title |-> PlaceholderTitle(n), body |-> PlaceholderBody,
     labels |-> JsonArray(<<>>), comments |-> 0]

\* As IssueDetailsOutcome, without the catch block.
IssueDetailsOutcomeMutNoCatch(n, resp) ==
    IF resp.kind = "neterr" THEN Thrown("Network")
    ELSE IF Ok(resp)
    THEN IF resp.body.kind = "unparseable" THEN Thrown("BodyParse")
         ELSE Returned(resp.body)
    ELSE Returned(Placeholder(n))

\* What fetchIssueDetails returns for a response: the parsed body of an ok
\* response; the placeholder after the catch block (a rejected fetch, a
\* body that is not JSON) and for a response that is not ok.
IssueDetailsOutcome(n, resp) ==
    IF resp.kind = "neterr" THEN Returned(Placeholder(n))
    ELSE IF Ok(resp)
    THEN IF resp.body.kind = "unparseable" THEN Returned(Placeholder(n))
         ELSE Returned(resp.body)
    ELSE Returned(Placeholder(n))

\* The identities the caller passes.
DetailIdents ==
    { [status |-> "ok", owner |-> <<"a">>, repo |-> <<"b">>],
      [status |-> "ok", owner |-> <<"o", "r", "g">>, repo |-> <<"a", "p", "p">>] }

InitIssueDetails ==
    /\ op = "fetchIssueDetails"
    /\ repoUrl = <<>>
    /\ token \in Tokens
    /\ tz = 0
    /\ pc = "fetch"
    /\ ident \in DetailIdents
    /\ issueNumber \in IssueNumbers
    /\ input = [status |-> "none"]
    /\ IdleCallers
    /\ IdleFetch

\* The issue-detail call, with the Authorization header when a token is
\* set, and the return.
IssueDetailsFetch ==
    /\ op = "fetchIssueDetails"
    /\ pc = "fetch"
    /\ \E resp \in IssueDetailResponses :
         /\ calls' = Append(calls, Call("issue", ident, token # "", resp))
         /\ result' = IssueDetailsOutcome(issueNumber, resp)
    /\ pc' = "done"
    /\ UNCHANGED <<outer, op, repoUrl, token, tz, ident, repoData, contributors,
                   openPRs, closedPRs>>

NextIssueDetails == IssueDetailsFetch

SpecIssueDetails == InitIssueDetails /\ [][NextIssueDetails]_vars

----------------------------------------------------------------------------
(* The chart builders: generateBarChartUrl, generatePieChartUrl and        *)
(* generateCommitsOverTimeChartUrl.  A chart URL is the QuickChart address *)
(* with the JSON text of the chart configuration as its parameter c; the   *)
(* model keeps the configuration that the JSON text carries.  The language *)
(* names and the labels of the model are well-formed strings, for which    *)
(* encodeURIComponent does not throw.                                      *)

MaxSlices == 22
MaxPoints == 2

\* Number.POSITIVE_INFINITY
Infinity == [nan |-> FALSE, n |-> 0, infinite |-> TRUE]

\* typeof x === 'number'
IsNumber(x) == x # Undefined

\* isFinite(x), for a number
IsFinite(x) == ~x.nan /\ "infinite" \notin DOMAIN x

\* As SafeNumber, without the isFinite test.
SafeNumberMutTypeOnly(x) == IF IsNumber(x) THEN x ELSE Num(0)

\* x => (typeof x === 'number' && isFinite(x) ? x : 0)
SafeNumber(x) == IF IsNumber(x) /\ IsFinite(x) THEN x ELSE Num(0)

\* JSON.stringify writes a number that is not finite, and an undefined
\* array element, as null.
JsonNumber(x) == IF IsNumber(x) /\ IsFinite(x) THEN x ELSE NullValue

JsonNumbers(xs) == [i \in 1..Len(xs) |-> JsonNumber(xs[i])]

\* The empty string: no chart.
NoChart == [empty |-> TRUE]

\* `https://quickchart.io/chart?c=${...}&width=500&height=220`
ChartUrl(config) ==
    [empty |-> FALSE, base |-> "https://quickchart.io/chart", c |-> config,
     width |-> 500, height |-> 220]

BarLabels == <<"Stars", "Forks", "Open Issues", "Open PRs", "Closed PRs">>

BarColors == <<"#facc15", "#38bdf8", "#f87171", "#34d399", "#a78bfa">>

generateBarChartUrl(in) ==
    LET safeData == [i \in 1..5 |->
                        SafeNumber(<<in.stars, in.forks, in.openIssues,
                                     in.openPRs, in.closedPRs>>[i])]
    IN  IF \A i \in 1..5 : safeData[i] = Num(0) THEN NoChart
        ELSE ChartUrl([type |-> "bar", labels |-> BarLabels,
                       data |-> JsonNumbers(safeData),
                       backgroundColor |-> BarColors,
                       title |-> "Repository Statistics"])

baseColors ==
    << "#facc15", "#38bdf8", "#f87171", "#34d399", "#a78bfa",
       "#fb7185", "#fbbf24", "#10b981", "#8b5cf6", "#06b6d4",
       "#eab308", "#0ea5e9", "#ef4444", "#22d3ee", "#6366f1",
       "#f472b6", "#fde68a", "#4ade80", "#c084fc", "#7dd3fc" >>

\* As getColorPalette, cycling one color short of the palette.
getColorPaletteMutShortCycle(n) ==
    [i \in 1..n |-> baseColors[((i - 1) % (Len(baseColors) - 1)) + 1]]

\* colors.push(baseColors[i % baseColors.length]) for i = 0 .. n-1
getColorPalette(n) ==
    [i \in 1..n |-> baseColors[((i - 1) % Len(baseColors)) + 1]]

generatePieChartUrl(langs) ==
    LET languageNames == [i \in 1..Len(langs.entries) |-> langs.entries[i].name]
        languageBytes == [i \in 1..Len(langs.entries) |-> langs.entries[i].bytes]
    IN  IF Len(languageNames) = 0 \/ Len(languageBytes) = 0 THEN NoChart
        ELSE ChartUrl([type |-> "pie", labels |-> languageNames,
                       data |-> languageBytes,
                       backgroundColor |-> getColorPalette(Len(languageNames)),
                       title |-> "Language Distribution"])

\* As NoCommitData, with a series of zero counts taken as no data.
NoCommitDataMutZeroCounts(commits) ==
    \/ Len(commits.labels) = 0
    \/ Len(commits.data) = 0
    \/ \A i \in 1..Len(commits.data) : commits.data[i] = Num(0)

\* !commits.labels.length || !commits.data.length
NoCommitData(commits) == Len(commits.labels) = 0 \/ Len(commits.data) = 0

generateCommitsOverTimeChartUrl(commits) ==
    IF NoCommitData(commits) THEN NoChart
    ELSE ChartUrl([type |-> "line", labels |-> commits.labels,
                   data |-> JsonNumbers(commits.data),
                   title |-> "Commits Over Time"])

ChartOps ==
    {"generateBarChartUrl", "generatePieChartUrl", "generateCommitsOverTimeChartUrl"}

\* Arguments of the bar chart builder.
BarValues == {Num(0), Num(12), NaN, Infinity, Undefined}

BarInputs ==
    [stars : BarValues, forks : BarValues, openIssues : BarValues,
     openPRs : BarValues, closedPRs : BarValues]

\* Arguments of the pie chart builder: the mappings of the language fetch,
\* and mappings of up to MaxSlices languages.
SliceName(i) == "Language" \o ToString(i)

PieInputs ==
    { body : body \in LanguageBodies }
      \cup { Languages([i \in 1..n |->
                          [name |-> SliceName(i),
                           bytes |-> IF i <= z THEN 0 ELSE 1024 * i]]) :
               n \in 1..MaxSlices, z \in {0, 1, MaxSlices} }

\* Arguments of the line chart builder.
LineInputs ==
    [labels : SeqsUpTo({"2024-09", "2024-12"}, MaxPoints),
     data : SeqsUpTo({Num(0), Num(5), NaN}, MaxPoints)]

InitCharts ==
    /\ op \in ChartOps
    /\ \/ op = "generateBarChartUrl" /\ input \in BarInputs
       \/ op = "generatePieChartUrl" /\ input \in PieInputs
       \/ op = "generateCommitsOverTimeChartUrl" /\ input \in LineInputs
    /\ repoUrl = <<>>
    /\ token = ""
    /\ tz = 0
    /\ pc = "start"
    /\ ident = [status |-> "none"]
    /\ issueNumber = 0
    /\ IdleCallers
    /\ IdleFetch

BuildBarChart ==
    /\ op = "generateBarChartUrl"
    /\ pc = "start"
    /\ result' = Returned(generateBarChartUrl(input))
    /\ pc' = "done"
    /\ UNCHANGED <<outer, op, repoUrl, token, tz, ident, repoData, contributors,
                   openPRs, closedPRs, calls>>

BuildPieChart ==
    /\ op = "generatePieChartUrl"
    /\ pc = "start"
    /\ result' = Returned(generatePieChartUrl(input))
    /\ pc' = "done"
    /\ UNCHANGED <<outer, op, repoUrl, token, tz, ident, repoData, contributors,
                   openPRs, closedPRs, calls>>

BuildCommitsChart ==
    /\ op = "generateCommitsOverTimeChartUrl"
    /\ pc = "start"
    /\ result' = Returned(generateCommitsOverTimeChartUrl(input))
    /\ pc' = "done"
    /\ UNCHANGED <<outer, op, repoUrl, token, tz, ident, repoData, contributors,
                   openPRs, closedPRs, calls>>

NextCharts == BuildBarChart \/ BuildPieChart \/ BuildCommitsChart

SpecCharts == InitCharts /\ [][NextCharts]_vars

----------------------------------------------------------------------------
(* The visualization tool: repositoryVisualizationTool.execute.  It calls  *)
(* getGitHubRepoStats, getRepositoryLanguages and getRepoCommitActivity in *)
(* turn (op is the function that runs), then builds the three chart URLs   *)
(* and the report.  The report is the sequence of the blocks of the        *)
(* template: text, statistics lines and image references.                  *)

Text(s) == [kind |-> "text", text |-> s]

StatLine(label, value) == [kind |-> "stat", label |-> label, value |-> value]

\* `![alt](url)`
Image(alt, url) == [kind |-> "image", alt |-> alt, target |-> url]

\* As ImageOr, with the image reference emitted whatever the URL.
ImageOrMutAlways(url, alt, otherwise) == Image(alt, url)

\* ${url ? `![alt](${url})` : otherwise}
ImageOr(url, alt, otherwise) == IF ~url.empty THEN Image(alt, url) ELSE Text(otherwise)

\* The arguments of generateBarChartUrl taken from the statistics record.
BarArguments(stats) ==
    [stars |-> Num(stats.stars), forks |-> Num(stats.forks),
     openIssues |-> Num(stats.openIssues),
     openPRs |-> Num(stats.pullRequests.open),
     closedPRs |-> Num(stats.pullRequests.closed)]

\* The template literal of the visualization.
Visualization(stats, langs, commits) ==
    << Text("# Repository Visualization"),
       Text(stats.fullName),
       StatLine("stars", stats.stars),
       StatLine("forks", stats.forks),
       StatLine("open issues", stats.openIssues),
       StatLine("open pull requests", stats.pullRequests.open),
       StatLine("closed pull requests", stats.pullRequests.closed),
       ImageOr(generateBarChartUrl(BarArguments(stats)),
               "Repository Statistics Bar Chart", ""),
       Text("## Language Distribution"),
       StatLine("languages", Len(langs.entries)),
       ImageOr(generatePieChartUrl(langs), "Language Distribution Pie Chart", ""),
       Text("## Commits Over Time"),
       ImageOr(generateCommitsOverTimeChartUrl(commits),
               "Commits Over Time Line Chart", "No commit activity data available.") >>

InitVisualization ==
    /\ tool = "repositoryVisualizationTool"
    /\ op = "getGitHubRepoStats"
    /\ repoUrl \in FetchUrls
    /\ token \in Tokens
    /\ tz = 0
    /\ pc = "start"
    /\ ident = [status |-> "none"]
    /\ repoStats = [status |-> "none"]
    /\ languages = [status |-> "none"]
    /\ commitActivity = [status |-> "none"]
    /\ llm = [status |-> "none"]
    /\ report = [status |-> "none"]
    /\ issueNumber = 0
    /\ input = [status |-> "none"]
    /\ IdleFetch

\* As VisCallLanguages, going on to the languages call after a statistics
\* fetch that threw as well.
VisCallLanguagesMutAlways ==
    /\ tool = "repositoryVisualizationTool"
    /\ op = "getGitHubRepoStats"
    /\ pc = "done"
    /\ repoStats' = IF result.status = "ok" THEN result.value ELSE repoStats
    /\ op' = "getRepositoryLanguages"
    /\ pc' = "start"
    /\ ident' = [status |-> "none"]
    /\ repoData' = [kind |-> "none"]
    /\ contributors' = [kind |-> "array", items |-> <<>>]
    /\ openPRs' = 0
    /\ closedPRs' = 0
    /\ result' = [status |-> "none"]
    /\ UNCHANGED <<tool, languages, commitActivity, llm, report, issueNumber, input,
                   repoUrl, token, tz, calls>>

\* const repoData = await getGitHubRepoStats(...) has returned; the call of
\* getRepositoryLanguages starts.  A statistics fetch that threw ends the
\* tool with that error.
VisCallLanguages ==
    /\ tool = "repositoryVisualizationTool"
    /\ op = "getGitHubRepoStats"
    /\ pc = "done"
    /\ result.status = "ok"
    /\ repoStats' = result.value
    /\ op' = "getRepositoryLanguages"
    /\ pc' = "start"
    /\ ident' = [status |-> "none"]
    /\ repoData' = [kind |-> "none"]
    /\ contributors' = [kind |-> "array", items |-> <<>>]
    /\ openPRs' = 0
    /\ closedPRs' = 0
    /\ result' = [status |-> "none"]
    /\ UNCHANGED <<tool, languages, commitActivity, llm, report, issueNumber, input,
                   repoUrl, token, tz, calls>>

\* const languages = await getRepositoryLanguages(...) has returned; the
\* call of getRepoCommitActivity starts.
VisCallActivity ==
    /\ tool = "repositoryVisualizationTool"
    /\ op = "getRepositoryLanguages"
    /\ pc = "done"
    /\ result.status = "ok"
    /\ languages' = result.value
    /\ op' = "getRepoCommitActivity"
    /\ pc' = "start"
    /\ ident' = [status |-> "none"]
    /\ result' = [status |-> "none"]
    /\ UNCHANGED <<tool, repoStats, commitActivity, llm, report, issueNumber, input,
                   repoUrl, token, tz, repoData, contributors, openPRs, closedPRs,
                   calls>>

\* const commitActivity = await getRepoCommitActivity(...) has returned; the
\* charts and the template, and the return of the tool.
VisCompose ==
    /\ tool = "repositoryVisualizationTool"
    /\ op = "getRepoCommitActivity"
    /\ pc = "done"
    /\ result.status = "ok"
    /\ commitActivity' = result.value
    /\ report' = Visualization(repoStats, languages, result.value)
    /\ result' = Returned([visualization |-> report',
                           repository |-> [fullName |-> repoStats.fullName]])
    /\ op' = "repositoryVisualizationTool"
    /\ pc' = "done"
    /\ ident' = [status |-> "none"]
    /\ UNCHANGED <<tool, repoStats, languages, llm, issueNumber, input,
                   repoUrl, token, tz, repoData, contributors, openPRs, closedPRs,
                   calls>>

NextVisualization ==
    \/ StatsParse
    \/ StatsFetchMeta
    \/ StatsFetchContributors
    \/ StatsFetchPulls
    \/ VisCallLanguages
    \/ LanguagesParse
    \/ LanguagesFetch
    \/ VisCallActivity
    \/ ActivityParse
    \/ ActivityFetch
    \/ VisCompose

SpecVisualization == InitVisualization /\ [][NextVisualization]_vars

----------------------------------------------------------------------------
(* The workflow: the step fetchRepoData, then the step generateReport.     *)
(* The output of the language model is a text, a sequence of one-character *)
(* strings, made of lines and line ends; the report is the sequence of the *)
(* blocks of its template.                                                 *)

MaxLlmLines == 4

LlmLines ==
    { <<"-", " ", "A", "d", "d", " ", "t", "e", "s", "t", "s">>,
      <<" ", " ", "*", " ", "R", "e", "v", "i", "e", "w", " ", "o", "p", "e", "n", " ", "P", "R", "s">>,
      <<"I", "n", "s", "i", "g", "h", "t", "s", ":">>,
      <<>> }

LineEnds == { <<"\n">>, <<"\r", "\n">> }

\* parts.join(sep)
RECURSIVE JoinWith(_, _)
JoinWith(parts, sep) ==
    IF parts = <<>> THEN <<>>
    ELSE IF Len(parts) = 1 THEN parts[1]
    ELSE parts[1] \o sep \o JoinWith(Tail(parts), sep)

\* agent.stream(...) and the loop over response.textStream: the whole text
\* (its lines, the line end between them, and the text they make), or an
\* error thrown by the call or by the stream after some text.
LlmOutcomes ==
    { [status |-> "ok", lines |-> l, eol |-> e, text |-> JoinWith(l, e)] :
        l \in SeqsUpTo(LlmLines, MaxLlmLines), e \in LineEnds }
      \cup { [status |-> "throws", lines |-> l, eol |-> <<"\n">>, text |-> JoinWith(l, <<"\n">>)] :
                l \in SeqsUpTo(LlmLines, 1) }

\* insights.split(/\r?\n/): line k runs from the character after the line
\* feed k-1 to the character before the line feed k, without the carriage
\* return that the separator takes with it.
SplitLines(s) ==
    LET feeds == {i \in 1..Len(s) : s[i] = "\n"}
        Feed(k) == IF k = 0 THEN 0
                   ELSE IF k > Cardinality(feeds) THEN Len(s) + 1
                   ELSE CHOOSE i \in feeds : Cardinality({j \in feeds : j < i}) = k - 1
        First(k) == Feed(k - 1) + 1
        Last(k) == IF /\ k <= Cardinality(feeds)
                      /\ Feed(k) - 1 >= First(k)
                      /\ s[Feed(k) - 1] = "\r"
                   THEN Feed(k) - 2
                   ELSE Feed(k) - 1
    IN  [k \in 1..(Cardinality(feeds) + 1) |-> SubSeq(s, First(k), Last(k))]

Whitespace == {" ", "\t", "\r", "\n"}

\* The part of line.trim() that startsWith looks at.
RECURSIVE TrimStart(_)
TrimStart(s) ==
    IF s # <<>> /\ Head(s) \in Whitespace THEN TrimStart(Tail(s)) ELSE s

\* As IsBullet, with the bullet looked for in the untrimmed line.
IsBulletMutNoTrim(line) == line # <<>> /\ Head(line) \in {"-", "*"}

\* line.trim().startsWith("-") || line.trim().startsWith("*")
IsBullet(line) == TrimStart(line) # <<>> /\ Head(TrimStart(line)) \in {"-", "*"}

\* "(No insights available.)"
NoInsights == <<"(", "N", "o", " ", "i", "n", "s", "i", "g", "h", "t", "s", " ", "a", "v", "a", "i", "l", "a", "b", "l", "e", ".", ")">>

\* As InsightsText, without the catch block: the text streamed so far.
InsightsTextMutNoCatch(out) == out.text

\* The variable insights after the try block and its catch.
InsightsText(out) == IF out.status = "throws" THEN NoInsights ELSE out.text

\* ${topInsights || insights}: the first 3 bullet lines joined by "\n", or
\* else the text as it is.
InsightsSection(out) ==
    LET insightLines == SelectSeq(SplitLines(InsightsText(out)), IsBullet)
        topInsights == JoinWith(SubSeq(insightLines, 1, Min(3, Len(insightLines))), <<"\n">>)
    IN  IF topInsights # <<>> THEN topInsights ELSE InsightsText(out)

ContributorLine(i, c) ==
    [kind |-> "contributor", rank |-> i, username |-> c.username,
     profileUrl |-> c.profileUrl, contributions |-> c.contributions]

\* As ContributorsList, without the line for an empty list.
ContributorsListMutNoDefault(cs) == [i \in 1..Len(cs) |-> ContributorLine(i, cs[i])]

\* contributors.length > 0 ? contributors.map(...) : "- No contributors found."
ContributorsList(cs) ==
    IF Len(cs) > 0 THEN [i \in 1..Len(cs) |-> ContributorLine(i, cs[i])]
    ELSE <<Text("- No contributors found.")>>

\* license ? `${license.name} (${license.spdxId})` : "No license specified"
LicenseText(license) ==
    IF ~license.null
    THEN [kind |-> "license", name |-> license.name, spdxId |-> license.spdxId]
    ELSE Text("No license specified")

\* The template literal of the report.
Markdown(stats, out) ==
    << Text("# GitHub Repository Report"),
       Text(stats.fullName),
       Text("## Statistics"),
       StatLine("Stars", stats.stars),
       StatLine("Forks", stats.forks),
       StatLine("Open Issues", stats.openIssues),
       LicenseText(stats.license),
       Text("## Top Contributors") >>
    \o ContributorsList(stats.contributors)
    \o << Text("## Pull Requests"),
          StatLine("Open PRs", stats.pullRequests.open),
          StatLine("Closed PRs", stats.pullRequests.closed),
          StatLine("Total PRs", stats.pullRequests.total),
          Text("## License"),
          LicenseText(stats.license),
          Text("## Insights") >>
    \o << [kind |-> "insights", text |-> InsightsSection(out)] >>

InitWorkflow ==
    /\ tool = "githubReporterWorkflow"
    /\ op = "fetchRepoData"
    /\ repoUrl \in FetchUrls
    /\ token = ""
    /\ tz = 0
    /\ pc = "start"
    /\ ident = [status |-> "none"]
    /\ repoStats = [status |-> "none"]
    /\ languages = [status |-> "none"]
    /\ commitActivity = [status |-> "none"]
    /\ llm = [status |-> "none"]
    /\ report = [status |-> "none"]
    /\ issueNumber = 0
    /\ input = [status |-> "none"]
    /\ IdleFetch

\* .then(generateReport): the step runs on the output of a fetch step that
\* returned; a fetch step that threw ends the workflow with that error.
GenerateReport ==
    /\ tool = "githubReporterWorkflow"
    /\ op = "fetchRepoData"
    /\ pc = "done"
    /\ result.status = "ok"
    /\ \E out \in LlmOutcomes :
         /\ llm' = out
         /\ report' = Markdown(result.value, out)
         /\ result' = Returned([report |-> Markdown(result.value, out)])
    /\ repoStats' = result.value
    /\ op' = "generateReport"
    /\ pc' = "done"
    /\ UNCHANGED <<tool, languages, commitActivity, issueNumber, input,
                   repoUrl, token, tz, ident, repoData, contributors, openPRs,
                   closedPRs, calls>>

NextWorkflow ==
    \/ StatsParse
    \/ StatsFetchMeta
    \/ StatsFetchContributors
    \/ StatsFetchPulls
    \/ GenerateReport

SpecWorkflow == InitWorkflow /\ [][NextWorkflow]_vars

----------------------------------------------------------------------------
(* The classification of an issue: determineIssueType(title, body, labels). *)

MaxWords == 2
MaxLabels == 2

\* s.includes(sub), for strings
Includes(s, sub) ==
    \E i \in 0..(Len(s) - Len(sub)) : SubSeq(s, i + 1, i + Len(sub)) = sub

\* labels.includes(name), for the array of label names
HasLabel(labels, name) == \E i \in 1..Len(labels) : labels[i] = name

KeywordFix == <<"f", "i", "x">>

KeywordAdd == <<"a", "d", "d">>

KeywordImprove == <<"i", "m", "p", "r", "o", "v", "e">>

\* As determineIssueType, with the keyword rules tried before the label rules.
determineIssueTypeMutKeywordsFirst(title, body, labels) ==
    IF Includes(title, KeywordFix) \/ Includes(body, KeywordFix) THEN "Bug Fix"
    ELSE IF Includes(title, KeywordAdd) \/ Includes(body, KeywordAdd) THEN "Feature Addition"
    ELSE IF Includes(title, KeywordImprove) \/ Includes(body, KeywordImprove) THEN "Improvement"
    ELSE IF HasLabel(labels, "bug") THEN "Bug Fix"
    ELSE IF HasLabel(labels, "documentation") THEN "Documentation"
    ELSE IF HasLabel(labels, "enhancement") THEN "Feature Enhancement"
    ELSE IF HasLabel(labels, "test") THEN "Testing"
    ELSE IF HasLabel(labels, "performance") THEN "Performance"
    ELSE "General Issue"

determineIssueType(title, body, labels) ==
    IF HasLabel(labels, "bug") THEN "Bug Fix"
    ELSE IF HasLabel(labels, "documentation") THEN "Documentation"
    ELSE IF HasLabel(labels, "enhancement") THEN "Feature Enhancement"
    ELSE IF HasLabel(labels, "test") THEN "Testing"
    ELSE IF HasLabel(labels, "performance") THEN "Performance"
    ELSE IF Includes(title, KeywordFix) \/ Includes(body, KeywordFix) THEN "Bug Fix"
    ELSE IF Includes(title, KeywordAdd) \/ Includes(body, KeywordAdd) THEN "Feature Addition"
    ELSE IF Includes(title, KeywordImprove) \/ Includes(body, KeywordImprove) THEN "Improvement"
    ELSE "General Issue"

\* Words of the titles; "address" includes "add".
TitleWords ==
    { <<"f", "i", "x">>,
      <<"a", "d", "d", "r", "e", "s", "s">>,
      <<"i", "m", "p", "r", "o", "v", "e">>,
      <<"t", "y", "p", "o">> }

\* words.join(" ")
RECURSIVE JoinWords(_)
JoinWords(ws) ==
    IF ws = <<>> THEN <<>>
    ELSE IF Len(ws) = 1 THEN ws[1]
    ELSE ws[1] \o <<" ">> \o JoinWords(Tail(ws))

ClassifyTitles == { JoinWords(ws) : ws \in SeqsUpTo(TitleWords, MaxWords) }

ClassifyBodies ==
    { <<>>,
      <<"p", "l", "e", "a", "s", "e", " ", "f", "i", "x">>,
      <<"a", "d", "d", " ", "d", "o", "c", "s">>,
      <<"i", "m", "p", "r", "o", "v", "e", " ", "s", "p", "e", "e", "d">> }

ClassifyLabels ==
    SeqsUpTo({"bug", "documentation", "enhancement", "test", "performance",
              "good first issue"}, MaxLabels)

InitClassify ==
    /\ op = "determineIssueType"
    /\ input \in [title : ClassifyTitles, body : ClassifyBodies, labels : ClassifyLabels]
    /\ repoUrl = <<>>
    /\ token = ""
    /\ tz = 0
    /\ pc = "start"
    /\ ident = [status |-> "none"]
    /\ issueNumber = 0
    /\ IdleCallers
    /\ IdleFetch

Classify ==
    /\ op = "determineIssueType"
    /\ pc = "start"
    /\ result' = Returned(determineIssueType(input.title, input.body, input.labels))
    /\ pc' = "done"
    /\ UNCHANGED <<outer, op, repoUrl, token, tz, ident, repoData, contributors,
                   openPRs, closedPRs, calls>>

NextClassify == Classify

SpecClassify == InitClassify /\ [][NextClassify]_vars

----------------------------------------------------------------------------
(* The fetchers that take a repository URL, each called on its own with    *)
(* the token set or unset.                                                 *)

FetcherOps ==
    StatsOps \cup {"getRepositoryLanguages", "getRepoCommitActivity", "getGoodFirstIssues"}

InitFetchers ==
    /\ op \in FetcherOps
    /\ repoUrl \in FetchUrls
    /\ token \in Tokens
    /\ tz = 0
    /\ pc = "start"
    /\ IdleLocals

NextFetchers == NextStats \/ NextLanguages \/ NextActivity \/ NextIssues

SpecFetchers == InitFetchers /\ [][NextFetchers]_vars

----------------------------------------------------------------------------
(* The requirements of an issue: extractRequirements(body).                *)

MaxSentences == 6

\* The length a cleaned sentence has to exceed.
MinRequirementLength == 10

\* requirements.slice(0, 5)
MaxRequirements == 5

SentenceEnds == {".", "!", "?"}

\* \w of a regular expression
WordChars ==
    {"a", "b", "c", "d", "e", "f", "g", "h", "i", "j", "k", "l", "m", "n", "o", "p", "q", "r", "s", "t", "u", "v", "w", "x", "y", "z"}
      \cup {"A", "B", "C", "D", "E", "F", "G", "H", "I", "J", "K", "L", "M", "N", "O", "P", "Q", "R", "S", "T", "U", "V", "W", "X", "Y", "Z"}
      \cup {DigitChars[i] : i \in DOMAIN DigitChars} \cup {"_"}

\* The k-th smallest member of a set of positions.
KthOf(S, k) == CHOOSE i \in S : Cardinality({j \in S : j < i}) = k - 1

\* body.split(/[.!?]+/): the pieces between the runs of sentence ends, the
\* empty piece before a leading run and after a trailing run included.
SplitSentences(body) ==
    LET starts == {i \in 1..Len(body) :
                      body[i] \in SentenceEnds /\ (i = 1 \/ body[i - 1] \notin SentenceEnds)}
        ends == {i \in 1..Len(body) :
                    body[i] \in SentenceEnds
                      /\ (i = Len(body) \/ body[i + 1] \notin SentenceEnds)}
        n == Cardinality(starts)
        First(k) == IF k = 1 THEN 1 ELSE KthOf(ends, k - 1) + 1
        Last(k) == IF k = n + 1 THEN Len(body) ELSE KthOf(starts, k) - 1
    IN  [k \in 1..(n + 1) |-> SubSeq(body, First(k), Last(k))]

RECURSIVE TrimEnd(_)
TrimEnd(s) ==
    IF s # <<>> /\ s[Len(s)] \in Whitespace THEN TrimEnd(SubSeq(s, 1, Len(s) - 1)) ELSE s

\* sentence.trim()
Trim(s) == TrimEnd(TrimStart(s))

\* .replace(/^\w+\s+/, ''): a leading word and the white space after it are
\* removed; a text that does not start with a word and white space is kept.
StripLeadingWord(s) ==
    LET wordEnd == CHOOSE k \in 0..Len(s) :
                       /\ \A i \in 1..k : s[i] \in WordChars
                       /\ k = Len(s) \/ s[k + 1] \notin WordChars
        spaceEnd == CHOOSE k \in wordEnd..Len(s) :
                        /\ \A i \in (wordEnd + 1)..k : s[i] \in Whitespace
                        /\ k = Len(s) \/ s[k + 1] \notin Whitespace
    IN  IF wordEnd >= 1 /\ spaceEnd > wordEnd THEN SubSeq(s, spaceEnd + 1, Len(s)) ELSE s

KeywordShould == <<"s", "h", "o", "u", "l", "d">>

KeywordMust == <<"m", "u", "s", "t">>

KeywordNeed == <<"n", "e", "e", "d">>

\* s.includes('should') || s.includes('must') || s.includes('need')
HasRequirementWord(s) ==
    Includes(s, KeywordShould) \/ Includes(s, KeywordMust) \/ Includes(s, KeywordNeed)

\* const cleanSentence = sentence.trim().replace(/^\w+\s+/, '')
CleanSentence(sentence) == StripLeadingWord(Trim(sentence))

\* if (cleanSentence.length > 10)
LongEnough(cleanSentence) == Len(cleanSentence) > MinRequirementLength

extractRequirements(body) ==
    IF ~HasRequirementWord(body) THEN <<>>
    ELSE LET withWord == SelectSeq(SplitSentences(body), HasRequirementWord)
             cleaned == [k \in DOMAIN withWord |-> CleanSentence(withWord[k])]
             requirements == SelectSeq(cleaned, LongEnough)
         IN  SubSeq(requirements, 1, Min(MaxRequirements, Len(requirements)))

\* Sentences of a body: one kept with its leading word stripped (11
\* characters), one of 10 characters after the stripping, one without a
\* requirement word, one of 9 characters after trimming and stripping, and one
\* that starts with no word followed by white space.
RequirementSentences ==
    { <<"w", "e", " ", "m", "u", "s", "t", " ", "f", "i", "x", " ", "i", "t">>,
      <<"w", "e", " ", "n", "e", "e", "d", " ", "t", "e", "s", "t", "s">>,
      <<"s", "e", "e", " ", "d", "o", "c", "s">>,
      <<" ", "i", "t", " ", "s", "h", "o", "u", "l", "d", " ", "g", "o">>,
      <<"m", "u", "s", "t", "-", "h", "a", "v", "e", " ", "i", "t", "e", "m">> }

RequirementBodies ==
    { JoinWith(l, sep) : l \in SeqsUpTo(RequirementSentences, MaxSentences),
                         sep \in { <<".">>, <<"!", "?">> } }

InitExtract ==
    /\ op = "extractRequirements"
    /\ input \in [body : RequirementBodies]
    /\ repoUrl = <<>>
    /\ token = ""
    /\ tz = 0
    /\ pc = "start"
    /\ ident = [status |-> "none"]
    /\ issueNumber = 0
    /\ IdleCallers
    /\ IdleFetch

ExtractRequirements ==
    /\ op = "extractRequirements"
    /\ pc = "start"
    /\ result' = Returned(extractRequirements(input.body))
    /\ pc' = "done"
    /\ UNCHANGED <<outer, op, repoUrl, token, tz, ident, repoData, contributors,
                   openPRs, closedPRs, calls>>

NextExtract == ExtractRequirements

SpecExtract == InitExtract /\ [][NextExtract]_vars

----------------------------------------------------------------------------
(* The guide of an issue: the texts a section is made of.  A text built by *)
(* appending canned lines is the sequence of these lines; the fields of    *)
(* the issue record may be absent.                                         *)

\* The lower-case letter of each upper-case letter.
LowerCaseOf ==
    "A" :> "a" @@ "B" :> "b" @@ "C" :> "c" @@ "D" :> "d" @@ "E" :> "e" @@ "F" :> "f"
      @@ "G" :> "g" @@ "H" :> "h" @@ "I" :> "i" @@ "J" :> "j" @@ "K" :> "k" @@ "L" :> "l"
      @@ "M" :> "m" @@ "N" :> "n" @@ "O" :> "o" @@ "P" :> "p" @@ "Q" :> "q" @@ "R" :> "r"
      @@ "S" :> "s" @@ "T" :> "t" @@ "U" :> "u" @@ "V" :> "v" @@ "W" :> "w" @@ "X" :> "x"
      @@ "Y" :> "y" @@ "Z" :> "z"

\* s.toLowerCase(), for a text
ToLowerCase(s) ==
    [i \in DOMAIN s |-> IF s[i] \in DOMAIN LowerCaseOf THEN LowerCaseOf[s[i]] ELSE s[i]]

\* l.name?.toLowerCase(), for the label names of the model
LowerCaseName(name) ==
    IF name = "Test" THEN "test"
    ELSE IF name = "Documentation" THEN "documentation"
    ELSE name

\* issueDetails.title?.toLowerCase() || '', and the same for the body
LowerText(issueDetails, field) ==
    IF field \in DOMAIN issueDetails THEN ToLowerCase(issueDetails[field]) ELSE <<>>

\* issueDetails.labels?.map(l => l.name?.toLowerCase()) || []
LowerLabels(issueDetails) ==
    IF "labels" \in DOMAIN issueDetails
    THEN [i \in 1..Len(issueDetails.labels.items) |->
             LowerCaseName(issueDetails.labels.items[i].name)]
    ELSE <<>>

KeywordFirefox == <<"f", "i", "r", "e", "f", "o", "x">>

KeywordBrowser == <<"b", "r", "o", "w", "s", "e", "r">>

KeywordSymbol == <<"s", "y", "m", "b", "o", "l">>

KeywordFunction == <<"f", "u", "n", "c", "t", "i", "o", "n">>

KeywordBreakpoint == <<"b", "r", "e", "a", "k", "p", "o", "i", "n", "t">>

\* The lines of a rule that is triggered, no line otherwise.
When(triggered, lines) == IF triggered THEN lines ELSE <<>>

\* As OrFallback, with the fallback block appended to every text.
OrFallbackMutAlways(lines, fallback) == lines \o fallback

\* if (!suggestions) { suggestions = ...the fallback block... }
OrFallback(lines, fallback) == IF lines = <<>> THEN fallback ELSE lines

\* The fallback blocks of the testing strategy and of the deliverables.
TestingFallback ==
    << "- **Functional Testing**: Verify the implementation works as expected",
       "- **Regression Testing**: Ensure existing functionality isn't broken",
       "- **Edge Case Testing**: Test with unusual inputs or conditions" >>

DeliverableFallback ==
    << "- **Code Implementation**: The actual code changes to resolve the issue",
       "- **Tests**: Tests that verify the fix works and won't regress",
       "- **Documentation**: Updates to relevant documentation if needed" >>

\* The trigger rules of the file suggestions, in their order (the lines
\* are written without the back quotes around their code spans).
FileRules(issueDetails) ==
    LET title == LowerText(issueDetails, "title")
        body == LowerText(issueDetails, "body")
        labels == LowerLabels(issueDetails)
    IN  << [triggered |-> (Includes(title, KeywordFirefox) \/ Includes(body, KeywordFirefox)
                              \/ Includes(title, KeywordBrowser)),
            lines |-> <<"- **Browser-specific files**: Look for browser detection or compatibility code">>],
           [triggered |-> (Includes(title, KeywordSymbol) \/ Includes(body, KeywordSymbol)
                              \/ Includes(title, KeywordFunction)),
            lines |-> <<"- **Value handling files**: Look for files that handle prop values, especially value and defaultValue props">>],
           [triggered |-> HasLabel(labels, "documentation"),
            lines |-> <<"- **Documentation files**: README.md, docs/ directory, API documentation">>],
           [triggered |-> HasLabel(labels, "test"),
            lines |-> <<"- **Test files**: __tests__/ directories, *.test.js files">>],
           [triggered |-> Includes(title, KeywordBreakpoint) \/ Includes(body, KeywordBreakpoint),
            lines |-> <<"- **Debugging files**: Look for files related to debugging, development tools, or browser integration">>] >>

FileFallback ==
    << "- **Source files**: Check the main source code files",
       "- **Test files**: Look for existing tests related to this functionality",
       "- **Documentation**: Update relevant documentation if user-facing changes" >>

\* The trigger rules of the testing strategy.
TestingRules(issueDetails) ==
    LET title == LowerText(issueDetails, "title")
        body == LowerText(issueDetails, "body")
    IN  << [triggered |-> Includes(title, KeywordFirefox) \/ Includes(body, KeywordFirefox),
            lines |-> <<"- **Cross-browser Testing**: Test specifically in Firefox and other browsers">>],
           [triggered |-> Includes(title, KeywordSymbol) \/ Includes(title, KeywordFunction),
            lines |-> <<"- **Type Testing**: Test with Symbol and Function values specifically",
                        "- **Edge Case Testing**: Test with various prop value types">>],
           [triggered |-> Includes(title, KeywordBreakpoint) \/ Includes(body, KeywordBreakpoint),
            lines |-> <<"- **Debugging Testing**: Test with browser dev tools and breakpoints",
                        "- **Browser Integration Testing**: Test browser-specific behavior">>] >>

\* The trigger rules of the deliverables.
DeliverableRules(issueDetails) ==
    LET title == LowerText(issueDetails, "title")
        body == LowerText(issueDetails, "body")
    IN  << [triggered |-> Includes(title, KeywordFirefox) \/ Includes(body, KeywordFirefox),
            lines |-> <<"- **Browser Fix**: Code changes that resolve the Firefox-specific issue",
                        "- **Cross-browser Tests**: Tests that verify the fix works across browsers">>],
           [triggered |-> Includes(title, KeywordSymbol) \/ Includes(title, KeywordFunction),
            lines |-> <<"- **Type Handling Fix**: Code that properly handles Symbol and Function values",
                        "- **Type Tests**: Tests that verify proper handling of different value types">>],
           [triggered |-> Includes(title, KeywordBreakpoint) \/ Includes(body, KeywordBreakpoint),
            lines |-> <<"- **Debugging Fix**: Code that resolves the breakpoint-related issue",
                        "- **Debugging Tests**: Tests that verify debugging functionality works correctly">>] >>

PullRequestLine ==
    "- **Pull Request**: A well-described PR with clear explanation of the changes"

\* The if statements of a generator, one after the other: the lines of the
\* triggered rules, appended in the order of the rules.
RECURSIVE AppendTriggered(_)
AppendTriggered(rules) ==
    IF rules = <<>> THEN <<>>
    ELSE When(Head(rules).triggered, Head(rules).lines) \o AppendTriggered(Tail(rules))

generateSpecificFileSuggestions(issueDetails) ==
    OrFallback(AppendTriggered(FileRules(issueDetails)), FileFallback)

generateSpecificTestingStrategy(issueDetails) ==
    OrFallback(AppendTriggered(TestingRules(issueDetails)), TestingFallback)

generateSpecificDeliverables(issueDetails) ==
    Append(OrFallback(AppendTriggered(DeliverableRules(issueDetails)), DeliverableFallback),
           PullRequestLine)

\* Issue records given to the generators: titles and bodies with the trigger
\* words in either case, with none and with several of them; a record
\* without fields.
GuideTitles ==
    { <<"F", "i", "r", "e", "f", "o", "x", " ", "c", "r", "a", "s", "h">>,
      <<"S", "y", "m", "b", "o", "l", " ", "a", "s", " ", "v", "a", "l", "u", "e">>,
      <<"F", "i", "x", " ", "b", "r", "o", "w", "s", "e", "r", " ", "f", "u", "n", "c", "t", "i", "o", "n">>,
      <<"B", "r", "e", "a", "k", "p", "o", "i", "n", "t", " ", "s", "k", "i", "p", "p", "e", "d">>,
      <<"U", "p", "d", "a", "t", "e", " ", "r", "e", "a", "d", "m", "e">> }

GuideBodies ==
    { <<>>,
      <<"F", "a", "i", "l", "s", " ", "i", "n", " ", "F", "i", "r", "e", "f", "o", "x">>,
      <<"s", "y", "m", "b", "o", "l", " ", "a", "t", " ", "a", " ", "b", "r", "e", "a", "k", "p", "o", "i", "n", "t">>,
      <<"s", "e", "e", " ", "d", "o", "c", "s">> }

GuideLabels ==
    { JsonArray(l) :
        l \in SeqsUpTo({ObjectLabel("Documentation"), ObjectLabel("test"), ObjectLabel("bug")},
                       MaxLabels) }

GuideIssueDetails ==
    { [kind |-> "issue", title |-> t, body |-> b, labels |-> l, comments |-> 4] :
        t \in GuideTitles, b \in GuideBodies, l \in GuideLabels }
      \cup {JsonObject}

SuggestOps ==
    {"generateSpecificFileSuggestions", "generateSpecificTestingStrategy",
     "generateSpecificDeliverables"}

InitSuggest ==
    /\ op \in SuggestOps
    /\ input \in GuideIssueDetails
    /\ repoUrl = <<>>
    /\ token = ""
    /\ tz = 0
    /\ pc = "start"
    /\ ident = [status |-> "none"]
    /\ issueNumber = 0
    /\ IdleCallers
    /\ IdleFetch

FileSuggestions ==
    /\ op = "generateSpecificFileSuggestions"
    /\ pc = "start"
    /\ result' = Returned(generateSpecificFileSuggestions(input))
    /\ pc' = "done"
    /\ UNCHANGED <<outer, op, repoUrl, token, tz, ident, repoData, contributors,
                   openPRs, closedPRs, calls>>

TestingStrategy ==
    /\ op = "generateSpecificTestingStrategy"
    /\ pc = "start"
    /\ result' = Returned(generateSpecificTestingStrategy(input))
    /\ pc' = "done"
    /\ UNCHANGED <<outer, op, repoUrl, token, tz, ident, repoData, contributors,
                   openPRs, closedPRs, calls>>

Deliverables ==
    /\ op = "generateSpecificDeliverables"
    /\ pc = "start"
    /\ result' = Returned(generateSpecificDeliverables(input))
    /\ pc' = "done"
    /\ UNCHANGED <<outer, op, repoUrl, token, tz, ident, repoData, contributors,
                   openPRs, closedPRs, calls>>

NextSuggest == FileSuggestions \/ TestingStrategy \/ Deliverables

SpecSuggest == InitSuggest /\ [][NextSuggest]_vars

----------------------------------------------------------------------------
(* The guide tool: getGoodFirstIssues, then generateIssueSpecificGuide,    *)
(* which fetches the details of the issues one after the other and appends *)
(* a section for each.  The guide is the sequence of its blocks.           *)

KeywordError == <<"e", "r", "r", "o", "r">>

KeywordException == <<"e", "x", "c", "e", "p", "t", "i", "o", "n">>

KeywordBug == <<"b", "u", "g">>

KeywordChrome == <<"c", "h", "r", "o", "m", "e">>

KeywordTest == <<"t", "e", "s", "t">>

KeywordSpec == <<"s", "p", "e", "c">>

KeywordDocumentation == <<"d", "o", "c", "u", "m", "e", "n", "t", "a", "t", "i", "o", "n">>

KeywordDocs == <<"d", "o", "c", "s">>

KeywordPerformance == <<"p", "e", "r", "f", "o", "r", "m", "a", "n", "c", "e">>

KeywordOptimize == <<"o", "p", "t", "i", "m", "i", "z", "e">>

\* The pattern rules of the analysis, in their order.
AnalysisRules(issueDetails) ==
    LET body == LowerText(issueDetails, "body")
        labels == LowerLabels(issueDetails)
    IN  << [triggered |-> (Includes(body, KeywordError) \/ Includes(body, KeywordException)
                              \/ Includes(body, KeywordBug)),
            lines |-> <<"**Problem**: This appears to be a bug or error that needs to be fixed.">>],
           [triggered |-> (Includes(body, KeywordFirefox) \/ Includes(body, KeywordChrome)
                              \/ Includes(body, KeywordBrowser)),
            lines |-> <<"**Browser Specific**: This issue may be browser-specific and needs cross-browser testing.">>],
           [triggered |-> (Includes(body, KeywordTest) \/ Includes(body, KeywordSpec)
                              \/ HasLabel(labels, "test")),
            lines |-> <<"**Testing Related**: This involves writing or improving tests.">>],
           [triggered |-> (Includes(body, KeywordDocumentation) \/ Includes(body, KeywordDocs)
                              \/ HasLabel(labels, "documentation")),
            lines |-> <<"**Documentation**: This requires updating or creating documentation.">>],
           [triggered |-> (Includes(body, KeywordPerformance) \/ Includes(body, KeywordOptimize)
                              \/ HasLabel(labels, "performance")),
            lines |-> <<"**Performance**: This involves performance improvements or optimizations.">>] >>

\* The issue type, the lines of the patterns found in the body, and the key
\* requirements.
analyzeSpecificIssue(issueDetails) ==
    [issueType |-> determineIssueType(LowerText(issueDetails, "title"),
                                      LowerText(issueDetails, "body"),
                                      LowerLabels(issueDetails)),
     patterns |-> AppendTriggered(AnalysisRules(issueDetails)),
     requirements |-> extractRequirements(LowerText(issueDetails, "body"))]

\* The plan of the issue type, named by its first step.
generateSpecificActionPlan(issueDetails) ==
    LET issueType == determineIssueType(LowerText(issueDetails, "title"),
                                        LowerText(issueDetails, "body"),
                                        LowerLabels(issueDetails))
    IN  IF issueType = "Bug Fix" THEN "1. **Reproduce the Issue**"
        ELSE IF issueType = "Documentation" THEN "1. **Understand What Needs Documentation**"
        ELSE IF issueType = "Testing" THEN "1. **Understand What to Test**"
        ELSE "1. **Understand the Issue**"

\* The section appended for an issue of the list and its details.
Section(issue, issueDetails) ==
    [kind |-> "section",
     number |-> issue.number,
     title |-> issue.title,
     analysis |-> analyzeSpecificIssue(issueDetails),
     actionPlan |-> generateSpecificActionPlan(issueDetails),
     files |-> generateSpecificFileSuggestions(issueDetails),
     testing |-> generateSpecificTestingStrategy(issueDetails),
     deliverables |-> generateSpecificDeliverables(issueDetails)]

\* The document returned for an empty list of issues.
NoIssuesDocument(repo) ==
    [kind |-> "document", heading |-> "No Good First Issues Available", repo |-> repo]

\* The head of the guide.
GuideHeader(repo) ==
    [kind |-> "header", heading |-> "Good First Issues Guide for", repo |-> repo]

\* The last block of the guide.
GettingStarted(owner, repo) ==
    [kind |-> "footer", heading |-> "**Getting Started**", owner |-> owner, repo |-> repo]

\* The response of a call that has not returned.
Pending == [kind |-> "pending"]

\* The issue-detail call of the guide for issue number n.
IssueCall(id, auth, n, resp) ==
    [endpoint |-> "issue", owner |-> id.owner, repo |-> id.repo, number |-> n,
     authorized |-> auth, response |-> resp]

\* As IssueAt, going through the list from its end.
IssueAtMutReversed(issues, i) == issues[Len(issues) + 1 - i]

\* As IssueAt, with the first issue of the list taken every time.
IssueAtMutFirst(issues, i) == issues[1]

\* const issue = issues[i]
IssueAt(issues, i) == issues[i]

\* The answers to the issue-detail call inside the guide tool.
IssueDetailResponsesInGuide ==
    { NetworkError, HttpResponse(404, Unparseable), HttpResponse(200, Unparseable),
      HttpResponse(200, JsonObject),
      HttpResponse(200, [kind |-> "issue",
                         title |-> <<"F", "i", "r", "e", "f", "o", "x", " ", "c", "r", "a", "s", "h">>,
                         body |-> <<"I", "t", " ", "m", "u", "s", "t", " ", "n", "o", "t", " ", "c", "r", "a", "s", "h", " ", "o", "n", " ", "e", "r", "r", "o", "r", ".", " ", "S", "e", "e", " ", "d", "o", "c", "s">>,
                         labels |-> JsonArray(<<ObjectLabel("bug")>>), comments |-> 4]),
      HttpResponse(200, [kind |-> "issue",
                         title |-> <<"U", "p", "d", "a", "t", "e", " ", "r", "e", "a", "d", "m", "e">>,
                         body |-> <<>>,
                         labels |-> JsonArray(<<ObjectLabel("Documentation")>>), comments |-> 0]) }

InitGuide ==
    /\ tool = "goodFirstIssuesWithGuideTool"
    /\ op = "getGoodFirstIssues"
    /\ repoUrl \in FetchUrls
    /\ token \in Tokens
    /\ tz = 0
    /\ pc = "start"
    /\ ident = [status |-> "none"]
    /\ repoStats = [status |-> "none"]
    /\ languages = [status |-> "none"]
    /\ commitActivity = [status |-> "none"]
    /\ llm = [status |-> "none"]
    /\ report = [status |-> "none"]
    /\ issueNumber = 0
    /\ input = [status |-> "none"]
    /\ IdleFetch

\* What the tool returns: { ...issuesResult, guide }
GuideResult(issuesResult, guide) ==
    Returned([issues |-> issuesResult.issues, repo |-> issuesResult.repo,
              owner |-> issuesResult.owner, message |-> issuesResult.message,
              guide |-> guide])

\* const issuesResult = await getGoodFirstIssues(...) has returned; the guide
\* generator parses the URL and returns the fixed document for an empty list,
\* or starts the guide and its loop.  A fetch of the issues that threw ends
\* the tool with that error.
GuideStart ==
    /\ tool = "goodFirstIssuesWithGuideTool"
    /\ op = "getGoodFirstIssues"
    /\ pc = "done"
    /\ result.status = "ok"
    /\ LET issuesResult == result.value
           id == parseGitHubUrl(repoUrl)
       IN  IF id.status # "ok"
           THEN /\ result' = id
                /\ op' = "goodFirstIssuesWithGuideTool"
                /\ UNCHANGED <<pc, ident, report, input>>
           ELSE IF Len(issuesResult.issues) = 0
           THEN /\ report' = <<NoIssuesDocument(id.repo)>>
                /\ result' = GuideResult(issuesResult, report')
                /\ op' = "goodFirstIssuesWithGuideTool"
                /\ ident' = id
                /\ input' = [issuesResult |-> issuesResult, i |-> 1]
                /\ UNCHANGED pc
           ELSE /\ report' = <<GuideHeader(id.repo)>>
                /\ result' = [status |-> "none"]
                /\ op' = "generateIssueSpecificGuide"
                /\ pc' = "loop"
                /\ ident' = id
                /\ input' = [issuesResult |-> issuesResult, i |-> 1]
    /\ UNCHANGED <<tool, repoStats, languages, commitActivity, llm, issueNumber,
                   repoUrl, token, tz, repoData, contributors, openPRs, closedPRs, calls>>

\* The head of the loop for an issue of the list: the issue-detail call is
\* issued and awaited.
GuideFetchDetails ==
    /\ op = "generateIssueSpecificGuide"
    /\ pc = "loop"
    /\ input.i <= Len(input.issuesResult.issues)
    /\ issueNumber' = IssueAt(input.issuesResult.issues, input.i).number
    /\ calls' = Append(calls, IssueCall(ident, token # "", issueNumber', Pending))
    /\ pc' = "await"
    /\ UNCHANGED <<tool, repoStats, languages, commitActivity, llm, report, input,
                   op, repoUrl, token, tz, ident, repoData, contributors, openPRs,
                   closedPRs, result>>

\* The call returns; fetchIssueDetails returns the details or the
\* placeholder, and the section of the issue is appended to the guide.
GuideAppendSection ==
    /\ op = "generateIssueSpecificGuide"
    /\ pc = "await"
    /\ \E resp \in IssueDetailResponsesInGuide :
         LET outcome == IssueDetailsOutcome(issueNumber, resp)
         IN  /\ calls' = [calls EXCEPT ![Len(calls)].response = resp]
             /\ IF outcome.status = "ok"
                THEN /\ report' = Append(report,
                                         Section(IssueAt(input.issuesResult.issues, input.i),
                                                 outcome.value))
                     /\ input' = [input EXCEPT !.i = @ + 1]
                     /\ pc' = "loop"
                     /\ UNCHANGED <<op, result>>
                ELSE /\ result' = outcome
                     /\ op' = "goodFirstIssuesWithGuideTool"
                     /\ pc' = "done"
                     /\ UNCHANGED <<report, input>>
    /\ UNCHANGED <<tool, repoStats, languages, commitActivity, llm, issueNumber,
                   repoUrl, token, tz, ident, repoData, contributors, openPRs, closedPRs>>

\* The loop has ended: the getting-started block is appended and the tool
\* returns the issues and the guide.
GuideFinish ==
    /\ op = "generateIssueSpecificGuide"
    /\ pc = "loop"
    /\ input.i > Len(input.issuesResult.issues)
    /\ report' = Append(report, GettingStarted(ident.owner, ident.repo))
    /\ result' = GuideResult(input.issuesResult, report')
    /\ op' = "goodFirstIssuesWithGuideTool"
    /\ pc' = "done"
    /\ UNCHANGED <<tool, repoStats, languages, commitActivity, llm, issueNumber, input,
                   repoUrl, token, tz, ident, repoData, contributors, openPRs, closedPRs,
                   calls>>

NextGuide ==
    \/ IssuesCheckToken
    \/ IssuesParse
    \/ IssuesFetch
    \/ GuideStart
    \/ GuideFetchDetails
    \/ GuideAppendSection
    \/ GuideFinish

SpecGuide == InitGuide /\ [][NextGuide]_vars

\* An invocation of one of the tools or of the workflow.
InitTools == InitVisualization \/ InitWorkflow \/ InitGuide

NextTools == NextVisualization \/ NextWorkflow \/ NextGuide

SpecTools == InitTools /\ [][NextTools]_vars

----------------------------------------------------------------------------
(* The URL parser: C1, C2 *)

Schemes == { <<"h", "t", "t", "p", ":", "/", "/">>,
             <<"h", "t", "t", "p", "s", ":", "/", "/">> }

GitHubHost == <<"g", "i", "t", "h", "u", "b", ".", "c", "o", "m">>

NoSlash(x) == \A k \in 1..Len(x) : x[k] # Slash

NoLineTerminator(x) == \A k \in 1..Len(x) : x[k] \notin LineTerminators

\* The ways of reading u as <scheme>github.com/<owner>/<repo><suffix>, the
\* owner and the repo non-empty and without a slash, the suffix empty or
\* starting with a slash.
UrlForms(u) ==
    UNION { LET base == sc \o GitHubHost \o <<Slash>>
            IN  IF ~HasAt(u, 1, base) THEN {}
                ELSE { [owner |-> SubSeq(u, Len(base) + 1, i - 1),
                        repo |-> SubSeq(u, i + 1, j),
                        suffix |-> SubSeq(u, j + 1, Len(u))] :
                         <<i, j>> \in
                           { ij \in ((Len(base) + 2)..Len(u)) \X ((Len(base) + 3)..Len(u)) :
                               /\ u[ij[1]] = Slash
                               /\ ij[2] > ij[1]
                               /\ NoSlash(SubSeq(u, Len(base) + 1, ij[1] - 1))
                               /\ NoSlash(SubSeq(u, ij[1] + 1, ij[2]))
                               /\ (ij[2] = Len(u) \/ u[ij[2] + 1] = Slash) } }
          : sc \in Schemes }

\* out is seg with one trailing ".git" removed, when seg has one.
IsStripped(seg, out) ==
    \/ out \o GitSuffix = seg
    \/ /\ out = seg
       /\ \A x \in {SubSeq(seg, 1, k) : k \in 0..Len(seg)} : x \o GitSuffix # seg

ParsedAs(F) ==
    IF F = {} THEN result = InvalidUrlError
    ELSE /\ result.status = "ok"
         /\ \E f \in F : result.owner = f.owner /\ IsStripped(f.repo, result.repo)

\* C1 as stated: every string of the form http(s)://github.com/<owner>/<repo>,
\* with any path suffix, parses to {owner, repo} with ".git" stripped from
\* the repo, and every other string fails with the invalid-URL error.
C1_AsStated ==
    (op = "parseGitHubUrl" /\ pc = "done") => ParsedAs(UrlForms(repoUrl))

\* C1 amended: the same, for the strings of that form whose path suffix
\* holds no line terminator; a string whose suffix holds one is rejected
\* like every other string.
C1_ParseUrl ==
    (op = "parseGitHubUrl" /\ pc = "done") =>
        ParsedAs({f \in UrlForms(repoUrl) : NoLineTerminator(f.suffix)})

\* A URL with a path suffix whose repo segment lost its ".git" was parsed.
C1_Witness ==
    /\ op = "parseGitHubUrl" /\ pc = "done" /\ result.status = "ok"
    /\ \E f \in UrlForms(repoUrl) :
          /\ f.suffix # <<>>
          /\ f.repo = result.repo \o GitSuffix
          /\ result.repo # <<>>

\* C2: every identity the parser returns has a non-empty owner and a
\* non-empty repo.
C2_NonEmptyIdentity ==
    (op = "parseGitHubUrl" /\ pc = "done" /\ result.status = "ok") =>
        (result.owner # <<>> /\ result.repo # <<>>)

----------------------------------------------------------------------------
(* The statistics fetch: C3 .. C6 *)

StatsDone == op \in StatsOps /\ pc = "done"

\* The call answered with a 2xx status and a JSON array.
DeliveredArray(c) ==
    /\ c.response.kind = "http"
    /\ c.response.status \in 200..299
    /\ c.response.body.kind = "array"

\* The list a call delivered, empty when it delivered none.
Delivered(c) == IF DeliveredArray(c) THEN c.response.body.items ELSE <<>>

\* The metadata call answered with a 2xx status and the metadata.
MetaSucceeded ==
    /\ Len(calls) >= 1
    /\ calls[1].endpoint = "repo"
    /\ calls[1].response.kind = "http"
    /\ calls[1].response.status \in 200..299
    /\ calls[1].response.body.kind = "object"

\* C3: when the metadata call returns a non-2xx status the statistics fetch
\* returns no record and throws the not-found error for 404, the rate-limited
\* error for 403, and the generic upstream error carrying the status for
\* every other status.
C3_MetaStatusErrors ==
    (/\ StatsDone
     /\ Len(calls) >= 1
     /\ calls[1].response.kind = "http"
     /\ calls[1].response.status \notin 200..299)
    =>
    LET st == calls[1].response.status
    IN  /\ Len(calls) = 1
        /\ result.status = "error"
        /\ st = 404 => result.error = "RepositoryNotFound"
        /\ st = 403 => result.error = "RateLimited"
        /\ st \notin {403, 404} =>
              (result.error = "Upstream" /\ result.httpStatus = st)

\* Both implementations have thrown the rate-limited error on a 403.
C3_Witness ==
    /\ StatsDone
    /\ Len(calls) = 1
    /\ calls[1].response.kind = "http"
    /\ calls[1].response.status = 403
    /\ result.status = "error"
    /\ result.error = "RateLimited"

\* C4: once the metadata call has succeeded, getGitHubRepoStats succeeds
\* whatever the contributors and the pull-requests calls deliver; a failed
\* contributors call gives contributors = [] and a failed pull-requests call
\* gives pullRequests = {open: 0, closed: 0, total: 0}.
C4_SecondaryBestEffort ==
    (op = "getGitHubRepoStats" /\ pc = "done" /\ MetaSucceeded)
    =>
    /\ result.status = "ok"
    /\ ~DeliveredArray(calls[2]) => result.value.contributors = <<>>
    /\ ~DeliveredArray(calls[3]) =>
          result.value.pullRequests = [open |-> 0, closed |-> 0, total |-> 0]

\* C5: in every statistics record, total = open + closed, open and closed
\* being the numbers of delivered pull requests whose state is exactly
\* "open" and "closed".
C5_PullRequestTotals ==
    (StatsDone /\ result.status = "ok")
    =>
    LET prs == Delivered(calls[3])
        pr == result.value.pullRequests
    IN  /\ pr.total = pr.open + pr.closed
        /\ pr.open = Cardinality({i \in DOMAIN prs : prs[i].state = "open"})
        /\ pr.closed = Cardinality({i \in DOMAIN prs : prs[i].state = "closed"})

\* A record was returned for pull requests that are open, closed and neither.
C5_Witness ==
    /\ StatsDone
    /\ result.status = "ok"
    /\ {e.state : e \in {Delivered(calls[3])[i] : i \in DOMAIN Delivered(calls[3])}}
          = {"open", "closed", "merged"}
    /\ result.value.pullRequests.total = 2

\* C6: in every statistics record, contributors are the first min(3, n) of
\* the n contributors delivered upstream, in upstream order.
C6_TopContributors ==
    (StatsDone /\ result.status = "ok")
    =>
    LET up == Delivered(calls[2])
        cs == result.value.contributors
    IN  /\ Len(cs) = Min(3, Len(up))
        /\ \A i \in 1..Len(cs) :
              /\ cs[i].username = up[i].login
              /\ cs[i].contributions = up[i].contributions
              /\ cs[i].profileUrl = up[i].html_url

\* A record was returned for more than three contributors, the first two
\* of them different.
C6_Witness ==
    /\ StatsDone
    /\ result.status = "ok"
    /\ Len(Delivered(calls[2])) > 3
    /\ Delivered(calls[2])[1] # Delivered(calls[2])[2]
    /\ Len(result.value.contributors) = 3

----------------------------------------------------------------------------
(* The language fetch: C7 *)

\* C7: called with a valid URL, getRepositoryLanguages never throws; it
\* returns the empty mapping for a network error, a non-2xx status or an
\* unparseable body, and the upstream mapping for a 2xx response.
C7_LanguagesNeverThrow ==
    (op = "getRepositoryLanguages" /\ pc = "done" /\ ident.status = "ok")
    =>
    LET r == calls[1].response
    IN  /\ Len(calls) = 1
        /\ result.status = "ok"
        /\ IF /\ r.kind = "http"
              /\ r.status \in 200..299
              /\ r.body.kind = "languages"
           THEN result.value = r.body
           ELSE result.value = Languages(<<>>)

\* A 2xx response with an unparseable body was answered by the empty mapping.
C7_Witness ==
    /\ op = "getRepositoryLanguages" /\ pc = "done" /\ ident.status = "ok"
    /\ calls[1].response.kind = "http"
    /\ calls[1].response.status = 200
    /\ calls[1].response.body.kind = "unparseable"
    /\ result = Returned(Languages(<<>>))

----------------------------------------------------------------------------
(* The commit-activity fetch: C8 .. C10 *)

ActivityDone == op = "getRepoCommitActivity" /\ pc = "done" /\ ident.status = "ok"

\* The calendar month of the week timestamps above in each of the time
\* zones above, from the calendar.
CalendarMonth(week, zone) ==
    IF week = 1725148800 THEN (IF zone = -300 THEN "2024-08" ELSE "2024-09")
    ELSE IF week = 1725753600 THEN "2024-09"
    ELSE "2024-12"

\* The call delivered a non-empty array of well-formed weekly entries.
WeeksDelivered ==
    /\ DeliveredArray(calls[1])
    /\ Delivered(calls[1]) # <<>>
    /\ \A i \in DOMAIN Delivered(calls[1]) : Delivered(calls[1])[i].kind = "week"

RECURSIVE TotalIn(_, _, _)
TotalIn(ws, zone, month) ==
    IF ws = <<>> THEN 0
    ELSE (IF CalendarMonth(Head(ws).week, zone) = month THEN Head(ws).total ELSE 0)
           + TotalIn(Tail(ws), zone, month)

FirstIn(ws, zone, month) ==
    CHOOSE i \in DOMAIN ws :
        /\ CalendarMonth(ws[i].week, zone) = month
        /\ \A j \in 1..(i - 1) : CalendarMonth(ws[j].week, zone) # month

\* C8: on a non-empty array of weekly entries the series has one label per
\* distinct calendar month (of the process's local time) occurring in the
\* input, in the order in which the months first appear, data[i] is the sum
\* of the totals of the weeks in labels[i], and labels and data have equal
\* length.
C8_MonthlyAggregation ==
    (ActivityDone /\ WeeksDelivered)
    =>
    /\ result.status = "ok"
    /\ LET ws == Delivered(calls[1])
           L == result.value.labels
           D == result.value.data
       IN  /\ Len(L) = Len(D)
           /\ {L[k] : k \in DOMAIN L} = {CalendarMonth(ws[i].week, tz) : i \in DOMAIN ws}
           /\ \A k, l \in DOMAIN L :
                 k < l => FirstIn(ws, tz, L[k]) < FirstIn(ws, tz, L[l])
           /\ \A k \in DOMAIN L : D[k] = Num(TotalIn(ws, tz, L[k]))

\* Three weeks of two months were aggregated, the later month first, away
\* from UTC.
C8_Witness ==
    /\ ActivityDone /\ WeeksDelivered
    /\ tz # 0
    /\ Len(Delivered(calls[1])) = 3
    /\ result.status = "ok"
    /\ result.value.labels = <<"2024-12", "2024-09">>
    /\ result.value.data = <<Num(8), Num(3)>>

\* C9: for two weekly entries whose timestamps fall in the same UTC month
\* the series has the single label of that month, with the sum of their
\* totals, whatever the local time zone of the process.
C9_SameUtcMonth ==
    (/\ ActivityDone /\ WeeksDelivered
     /\ Len(Delivered(calls[1])) = 2
     /\ CalendarMonth(Delivered(calls[1])[1].week, 0)
          = CalendarMonth(Delivered(calls[1])[2].week, 0))
    =>
    LET ws == Delivered(calls[1])
    IN  result = Returned([labels |-> <<CalendarMonth(ws[1].week, 0)>>,
                           data |-> <<Num(ws[1].total + ws[2].total)>>])

\* The call failed before a response body could be read as JSON.
ActivityCallFailed ==
    \/ calls[1].response.kind = "neterr"
    \/ calls[1].response.status \notin 200..299
    \/ calls[1].response.body.kind = "unparseable"

\* C10 as stated: called with a valid URL, getRepoCommitActivity never throws
\* and returns the empty series whenever the call fails, an entry of the
\* array is malformed, or the 2xx body is not a non-empty array.
C10_AsStated ==
    ActivityDone
    =>
    /\ result.status = "ok"
    /\ ( \/ ActivityCallFailed
         \/ ~DeliveredArray(calls[1])
         \/ Delivered(calls[1]) = <<>>
         \/ \E i \in DOMAIN Delivered(calls[1]) : Delivered(calls[1])[i].kind # "week" )
       => result.value = EmptySeries

\* C10 amended: the same, the malformed entries being those that are null
\* (reading their week throws); an entry such as {} does not fail the call.
C10_EmptySeriesOnFailure ==
    ActivityDone
    =>
    /\ result.status = "ok"
    /\ ( \/ ActivityCallFailed
         \/ ~DeliveredArray(calls[1])
         \/ Delivered(calls[1]) = <<>>
         \/ \E i \in DOMAIN Delivered(calls[1]) : Delivered(calls[1])[i].kind = "null" )
       => result.value = EmptySeries

\* A null entry after a well-formed one was answered by the empty series.
C10_Witness ==
    /\ ActivityDone
    /\ DeliveredArray(calls[1])
    /\ Len(Delivered(calls[1])) = 2
    /\ Delivered(calls[1])[1].kind = "week"
    /\ Delivered(calls[1])[2].kind = "null"
    /\ result = Returned(EmptySeries)

----------------------------------------------------------------------------
(* The good-first-issue fetch: C11, C12 *)

IssuesDone == op = "getGoodFirstIssues" /\ pc = "done"

\* C11: with no token set, getGoodFirstIssues issues no network call at any
\* point of the invocation, and it ends with the missing-credentials error.
C11_NoTokenNoCall ==
    (op = "getGoodFirstIssues" /\ token = "")
    =>
    /\ calls = <<>>
    /\ pc = "done" => result = Thrown("MissingCredentials")

\* The invocation without a token has failed, on a URL of a repository.
C11_Witness ==
    /\ IssuesDone
    /\ token = ""
    /\ parseGitHubUrl(repoUrl).status = "ok"
    /\ result = Thrown("MissingCredentials")
    /\ calls = <<>>

\* The four cases of a result without issues that C12 names.
IssuesCase(resp) ==
    IF resp.kind = "http" /\ resp.status = 404 THEN "not-found"
    ELSE IF resp.kind = "http" /\ resp.status = 403 THEN "forbidden"
    ELSE IF resp.kind = "http" /\ resp.status \notin 200..299 THEN "other-status"
    ELSE IF /\ resp.kind = "http"
            /\ resp.body.kind = "array"
            /\ resp.body.items = <<>> THEN "no-issues"
    ELSE "other"

\* The case a message stands for.
MessageCase(m) ==
    IF m = Undefined THEN "none"
    ELSE IF m.text = "Repository not found." THEN "not-found"
    ELSE IF m.text = "GitHub API rate limit exceeded or access denied." THEN "forbidden"
    ELSE IF m.text = "Failed to fetch issues" THEN "other-status"
    ELSE IF m.text = "There are currently no open 'good first issues' in this repository."
    THEN "no-issues"
    ELSE "other"

\* C12: with a token and a valid URL getGoodFirstIssues never throws; on a
\* 404, a 403, another non-2xx status and a 2xx response with no issues it
\* returns an empty list of issues with the message of that case and the
\* owner and repo of the parsed identity.
C12_EmptyListWithMessage ==
    (IssuesDone /\ token # "" /\ parseGitHubUrl(repoUrl).status = "ok")
    =>
    /\ result.status = "ok"
    /\ Len(calls) = 1
    /\ result.value.owner = parseGitHubUrl(repoUrl).owner
    /\ result.value.repo = parseGitHubUrl(repoUrl).repo
    /\ IssuesCase(calls[1].response) # "other" =>
          /\ result.value.issues = <<>>
          /\ MessageCase(result.value.message) = IssuesCase(calls[1].response)

\* A 403 has given the empty list with the rate-limit message.
C12_Witness ==
    /\ IssuesDone
    /\ token # ""
    /\ Len(calls) = 1
    /\ calls[1].response.kind = "http"
    /\ calls[1].response.status = 403
    /\ result.status = "ok"
    /\ result.value.issues = <<>>
    /\ result.value.message = ForbiddenMessage

----------------------------------------------------------------------------
(* The issue-detail fetch: C13 *)

IssueDetailsDone == op = "fetchIssueDetails" /\ pc = "done"

\* The issue-detail call failed: a network error, a status that is not 2xx
\* or a body that is not JSON.
IssueDetailsCallFailed ==
    /\ Len(calls) = 1
    /\ \/ calls[1].response.kind = "neterr"
       \/ calls[1].response.status \notin 200..299
       \/ calls[1].response.body.kind = "unparseable"

\* The placeholder fields other than the body: the title 'Issue #N', no
\* labels, comment count 0.
PlaceholderShape(v) ==
    /\ v.title = <<"I", "s", "s", "u", "e", " ", "#">> \o DecimalDigits(issueNumber)
    /\ v.labels = JsonArray(<<>>)
    /\ v.comments = 0

\* C13 as stated: fetchIssueDetails never throws, and for every failure of
\* the call it returns the placeholder with the title 'Issue #N', an empty
\* body, no labels and comment count 0.
C13_AsStated ==
    IssueDetailsDone =>
        /\ result.status = "ok"
        /\ IssueDetailsCallFailed =>
              (PlaceholderShape(result.value) /\ result.value.body = <<>>)

\* C13, amended: fetchIssueDetails never throws, and for every failure of
\* the call it returns the placeholder with the title 'Issue #N', the body
\* 'Unable to fetch issue details', no labels and comment count 0.
C13_PlaceholderOnFailure ==
    IssueDetailsDone =>
        /\ result.status = "ok"
        /\ IssueDetailsCallFailed =>
              /\ PlaceholderShape(result.value)
              /\ result.value.body = 
                  <<"U", "n", "a", "b", "l", "e", " ", "t", "o", " ", "f", "e", "t", "c", "h", " ", "i", "s", "s", "u", "e", " ", "d", "e", "t", "a", "i", "l", "s">>

\* A network error for issue 42 has given the placeholder 'Issue #42'.
C13_Witness ==
    /\ IssueDetailsDone
    /\ issueNumber = 42
    /\ Len(calls) = 1
    /\ calls[1].response.kind = "neterr"
    /\ result.status = "ok"
    /\ result.value.title = <<"I", "s", "s", "u", "e", " ", "#", "4", "2">>
    /\ result.value.comments = 0

----------------------------------------------------------------------------
(* The chart builders: C14 .. C16 *)

BarDone == op = "generateBarChartUrl" /\ pc = "done"

PieDone == op = "generatePieChartUrl" /\ pc = "done"

CommitsChartDone == op = "generateCommitsOverTimeChartUrl" /\ pc = "done"

\* An input of the bar chart that is missing or not finite.
MissingOrNonFinite(x) == x \in {Undefined, NaN, Infinity}

\* The five inputs of the bar chart in the order of the labels, each 0 when
\* missing or not finite.
CoercedInputs ==
    LET given == <<input.stars, input.forks, input.openIssues,
                   input.openPRs, input.closedPRs>>
    IN  [i \in 1..5 |-> IF MissingOrNonFinite(given[i]) THEN Num(0) ELSE given[i]]

\* C14: generateBarChartUrl returns the empty string exactly when the five
\* coerced values are all 0, and otherwise a URL whose chart carries the
\* labels Stars, Forks, Open Issues, Open PRs, Closed PRs in that order with
\* the five coerced values in the same order.
C14_BarChart ==
    BarDone =>
        /\ result.status = "ok"
        /\ result.value.empty <=> (\A i \in 1..5 : CoercedInputs[i] = Num(0))
        /\ ~result.value.empty =>
              /\ result.value.c.labels =
                    <<"Stars", "Forks", "Open Issues", "Open PRs", "Closed PRs">>
              /\ result.value.c.data = CoercedInputs

\* A chart was built from a missing star count, forks that are NaN and 12
\* open issues.
C14_Witness ==
    /\ BarDone
    /\ input.stars = Undefined
    /\ input.forks = NaN
    /\ input.openIssues = Num(12)
    /\ input.openPRs = Infinity
    /\ ~result.value.empty
    /\ result.value.c.data = <<Num(0), Num(0), Num(12), Num(0), input.closedPRs>>

\* C15: generatePieChartUrl returns the empty string for the empty mapping;
\* for N >= 1 languages the chart has N slices and N colors, and the color
\* of slice i is the palette entry i mod 20 (counting from 0).
C15_PieChart ==
    PieDone =>
        LET n == Len(input.entries)
        IN  /\ result.status = "ok"
            /\ n = 0 => result.value.empty
            /\ n >= 1 =>
                  /\ ~result.value.empty
                  /\ Len(result.value.c.labels) = n
                  /\ Len(result.value.c.data) = n
                  /\ Len(result.value.c.backgroundColor) = n
                  /\ \A i \in 0..(n - 1) :
                        result.value.c.backgroundColor[i + 1] = baseColors[(i % 20) + 1]

\* A chart of 22 languages: slices 21 and 22 repeat the first two colors.
C15_Witness ==
    /\ PieDone
    /\ Len(input.entries) = 22
    /\ ~result.value.empty
    /\ result.value.c.backgroundColor[21] = "#facc15"
    /\ result.value.c.backgroundColor[22] = "#38bdf8"

\* The input of the builder that ran contains a value that is not 0.
HasNonZeroData ==
    CASE op = "generateBarChartUrl" ->
            \E i \in 1..5 : CoercedInputs[i] # Num(0)
      [] op = "generatePieChartUrl" ->
            \E i \in 1..Len(input.entries) : input.entries[i].bytes # 0
      [] op = "generateCommitsOverTimeChartUrl" ->
            /\ Len(input.labels) > 0
            /\ \E i \in 1..Len(input.data) : input.data[i] # Num(0)

\* C16 as stated: each of the three builders returns the empty string
\* whenever its input contains no non-zero data, and a URL otherwise.
C16_AsStated ==
    (op \in ChartOps /\ pc = "done") => (result.value.empty <=> ~HasNonZeroData)

\* C16, amended: the bar chart builder returns the empty string exactly when
\* its coerced values are all 0, the pie chart builder exactly when the
\* mapping has no entry, the line chart builder exactly when the labels or
\* the counts are empty; zero byte counts and zero commit counts are charted.
C16_EmptyChartCases ==
    /\ BarDone => (result.value.empty <=> ~HasNonZeroData)
    /\ PieDone => (result.value.empty <=> input.entries = <<>>)
    /\ CommitsChartDone =>
          (result.value.empty <=> (input.labels = <<>> \/ input.data = <<>>))

\* A line chart was built from a series whose only count is 0.
C16_Witness ==
    /\ CommitsChartDone
    /\ input.labels = <<"2024-09">>
    /\ input.data = <<Num(0)>>
    /\ ~result.value.empty
    /\ result.value.c.data = <<Num(0)>>

----------------------------------------------------------------------------
(* The visualization report: C17 *)

VisualizationDone ==
    tool = "repositoryVisualizationTool" /\ op = "repositoryVisualizationTool" /\ pc = "done"

\* The report contains the image reference with this alternative text.
HasImage(alt) == \E i \in DOMAIN report : report[i].kind = "image" /\ report[i].alt = alt

HasText(s) == \E i \in DOMAIN report : report[i].kind = "text" /\ report[i].text = s

\* The URLs the three builders return for what the tool fetched.
BarChartUrl == generateBarChartUrl(BarArguments(repoStats))

PieChartUrl == generatePieChartUrl(languages)

CommitsChartUrl == generateCommitsOverTimeChartUrl(commitActivity)

\* C17: the visualization report contains the image reference of a chart if
\* and only if the builder of that chart returned a non-empty URL, and then
\* with that URL as its target; no image reference has an empty target; when
\* the commits chart URL is empty the report contains the line 'No commit
\* activity data available.'.
C17_ImageReferences ==
    VisualizationDone =>
        /\ HasImage("Repository Statistics Bar Chart") <=> ~BarChartUrl.empty
        /\ HasImage("Language Distribution Pie Chart") <=> ~PieChartUrl.empty
        /\ HasImage("Commits Over Time Line Chart") <=> ~CommitsChartUrl.empty
        /\ \A i \in DOMAIN report :
              report[i].kind = "image" =>
                  /\ ~report[i].target.empty
                  /\ report[i].target \in {BarChartUrl, PieChartUrl, CommitsChartUrl}
        /\ CommitsChartUrl.empty => HasText("No commit activity data available.")
        /\ ~CommitsChartUrl.empty => ~HasText("No commit activity data available.")

\* A repository without stars, forks, issues, pull requests, languages and
\* commits: the report has no image reference and the no-data line.
C17_Witness ==
    /\ VisualizationDone
    /\ BarChartUrl.empty
    /\ PieChartUrl.empty
    /\ CommitsChartUrl.empty
    /\ ~\E i \in DOMAIN report : report[i].kind = "image"
    /\ HasText("No commit activity data available.")

\* A report with the three image references.
C17_WitnessAllCharts ==
    /\ VisualizationDone
    /\ HasImage("Repository Statistics Bar Chart")
    /\ HasImage("Language Distribution Pie Chart")
    /\ HasImage("Commits Over Time Line Chart")

----------------------------------------------------------------------------
(* The workflow, end to end: C18 *)

WorkflowDone == tool = "githubReporterWorkflow" /\ op = "generateReport" /\ pc = "done"

\* The call did not reach its endpoint, or the endpoint answered with an
\* error status.
Unreachable(c) ==
    \/ c.response.kind = "neterr"
    \/ c.response.status \notin 200..299

\* The license line of the report.
HasLicense(name, spdxId) ==
    \E i \in DOMAIN report :
        report[i].kind = "license" /\ report[i].name = name /\ report[i].spdxId = spdxId

\* C18: in the workflow, when the metadata call succeeds and the
\* contributors and pull-requests endpoints are unreachable, the statistics
\* record has the upstream star count, no contributors and pull-request
\* counts 0, 0, 0, and the report contains 'No contributors found.'; the
\* report contains 'No license specified' exactly when the license of the
\* repository is null.
C18_WorkflowEndToEnd ==
    (WorkflowDone /\ Len(calls) = 3)
    =>
    /\ (Unreachable(calls[2]) /\ Unreachable(calls[3])) =>
          /\ repoStats.stars = calls[1].response.body.stargazers_count
          /\ repoStats.contributors = <<>>
          /\ repoStats.pullRequests = [open |-> 0, closed |-> 0, total |-> 0]
          /\ HasText("- No contributors found.")
    /\ HasText("No license specified") <=> calls[1].response.body.license.null
    /\ ~calls[1].response.body.license.null =>
          HasLicense(calls[1].response.body.license.name,
                     calls[1].response.body.license.spdx_id)

\* The scenario of 1500 stars with both secondary endpoints unreachable and
\* no license.
C18_Witness ==
    /\ WorkflowDone
    /\ Len(calls) = 3
    /\ calls[1].response.body.stargazers_count = 1500
    /\ calls[1].response.body.license.null
    /\ calls[2].response.kind = "neterr"
    /\ calls[3].response.kind = "http" /\ calls[3].response.status = 500
    /\ repoStats.stars = 1500
    /\ HasText("- No contributors found.")
    /\ HasText("No license specified")

----------------------------------------------------------------------------
(* The classification of an issue: C19 *)

ClassifyDone == op = "determineIssueType" /\ pc = "done"

\* The label rules and the keyword rules in their order, with their results.
LabelRules ==
    << <<"bug", "Bug Fix">>, <<"documentation", "Documentation">>,
       <<"enhancement", "Feature Enhancement">>, <<"test", "Testing">>,
       <<"performance", "Performance">> >>

KeywordRules ==
    << <<<<"f", "i", "x">>, "Bug Fix">>,
       <<<<"a", "d", "d">>, "Feature Addition">>,
       <<<<"i", "m", "p", "r", "o", "v", "e">>, "Improvement">> >>

\* Rule i of the eight matches the input.
RuleMatches(i) ==
    IF i <= 5 THEN \E k \in DOMAIN input.labels : input.labels[k] = LabelRules[i][1]
    ELSE \/ Includes(input.title, KeywordRules[i - 5][1])
         \/ Includes(input.body, KeywordRules[i - 5][1])

RuleResult(i) == IF i <= 5 THEN LabelRules[i][2] ELSE KeywordRules[i - 5][2]

\* C19: determineIssueType returns the result of the first rule that matches,
\* the five label rules coming before the three keyword rules, and 'General
\* Issue' when none matches; an issue labeled bug and documentation is a
\* 'Bug Fix', and a label match wins over every keyword match.
C19_FirstMatchingRule ==
    ClassifyDone =>
        /\ \A i \in 1..8 :
              (RuleMatches(i) /\ \A j \in 1..(i - 1) : ~RuleMatches(j))
                  => result.value = RuleResult(i)
        /\ (\A i \in 1..8 : ~RuleMatches(i)) => result.value = "General Issue"
        /\ (RuleMatches(1) /\ RuleMatches(2)) => result.value = "Bug Fix"
        /\ (\E i \in 1..5 : RuleMatches(i)) =>
              result.value \in {LabelRules[i][2] : i \in 1..5}

\* An issue labeled documentation whose title says fix is 'Documentation'.
C19_Witness ==
    /\ ClassifyDone
    /\ input.labels = <<"good first issue", "documentation">>
    /\ input.title = <<"f", "i", "x">>
    /\ input.body = <<"a", "d", "d", " ", "d", "o", "c", "s">>
    /\ result.value = "Documentation"

----------------------------------------------------------------------------
(* The parser as the first step of every fetcher: C20 *)

\* C20: every fetcher that takes a repository URL calls the parser before
\* any other check and any network call: for an invalid URL it issues no
\* network call and fails with the invalid-URL error of the parser, whether
\* the token is set or not.
C20_ParserFirst ==
    (op \in FetcherOps /\ parseGitHubUrl(repoUrl).status # "ok")
    =>
    /\ calls = <<>>
    /\ pc = "done" => result = InvalidUrlError

----------------------------------------------------------------------------
(* The insights section of the report: C24, C29 *)

\* The first character of the line that is no blank is '-' or '*'.
StartsWithBullet(line) ==
    \E i \in 1..Len(line) :
        /\ line[i] \in {"-", "*"}
        /\ \A j \in 1..(i - 1) : line[j] \in {" ", "\t"}

\* The lines of the output of the language model that are bullets.
BulletLines == SelectSeq(llm.lines, StartsWithBullet)

\* C24: when the output of the language model has a line that starts, after
\* trimming, with '-' or '*', the insights section is the first 3 such lines
\* (all of them if fewer) in their order and nothing else; when it has none,
\* the section is the output as it is.
C24_InsightsSection ==
    (WorkflowDone /\ llm.status = "ok")
    =>
    LET section == report[Len(report)]
    IN  /\ section.kind = "insights"
        /\ BulletLines # <<>> =>
              section.text =
                  JoinWith(SubSeq(BulletLines, 1, IF Len(BulletLines) < 3
                                                  THEN Len(BulletLines) ELSE 3),
                           <<"\n">>)
        /\ BulletLines = <<>> => section.text = llm.text

\* Four bullet lines separated by CR LF: the section has the first three.
C24_Witness ==
    /\ WorkflowDone
    /\ llm.status = "ok"
    /\ llm.eol = <<"\r", "\n">>
    /\ Len(llm.lines) = 4
    /\ Len(BulletLines) = 4
    /\ llm.lines[1] # llm.lines[2]
    /\ report[Len(report)].text = JoinWith(SubSeq(llm.lines, 1, 3), <<"\n">>)

\* An output without a bullet line is the section, line ends included.
C24_WitnessRaw ==
    /\ WorkflowDone
    /\ llm.status = "ok"
    /\ llm.eol = <<"\r", "\n">>
    /\ Len(llm.lines) = 2
    /\ BulletLines = <<>>
    /\ llm.lines[1] # <<>>
    /\ report[Len(report)].text = llm.text

\* The headings of the fixed sections of the report.
FixedSections ==
    {"# GitHub Repository Report", "## Statistics", "## Top Contributors",
     "## Pull Requests", "## License", "## Insights"}

\* C29: a failure of the call of the language model, at the call or while
\* streaming, does not fail the report step: it returns the report with all
\* its fixed sections and '(No insights available.)' as its insights
\* section; and the report step has run only on the record of a fetch step
\* that succeeded, a failed fetch step leaving the workflow without report.
C29_LlmFailure ==
    /\ (WorkflowDone /\ llm.status = "throws") =>
          /\ result.status = "ok"
          /\ result.value.report = report
          /\ \A h \in FixedSections : HasText(h)
          /\ report[Len(report)] =
                [kind |-> "insights",
                 text |-> <<"(", "N", "o", " ", "i", "n", "s", "i", "g", "h", "t", "s", " ",
                            "a", "v", "a", "i", "l", "a", "b", "l", "e", ".", ")">>]
    /\ (tool = "githubReporterWorkflow" /\ (op = "generateReport" \/ llm.status # "none")) =>
          /\ Len(calls) = 3
          /\ MetaSucceeded
          /\ repoStats.stars = calls[1].response.body.stargazers_count
    /\ (tool = "githubReporterWorkflow" /\ op = "fetchRepoData" /\ result.status = "error") =>
          /\ llm.status = "none"
          /\ report = [status |-> "none"]

\* The stream threw after a bullet line: the section is the fixed text.
C29_Witness ==
    /\ WorkflowDone
    /\ llm.status = "throws"
    /\ Len(llm.lines) = 1
    /\ StartsWithBullet(llm.lines[1])
    /\ result.status = "ok"
    /\ report[Len(report)].text # llm.text

----------------------------------------------------------------------------
(* The two implementations of the statistics fetch: C27 *)

\* What the implementation impl returns or throws for the responses that
\* the invocation got on its three calls.
StatsResultOf(impl) ==
    StatsReturn(impl, repoData, ContributorsAfter(impl, calls[2].response),
                openPRs, closedPRs)

\* C27: for the same URL and the same upstream responses, getGitHubRepoStats
\* and fetchRepoData fail with the same error or return equal records: what
\* one implementation got is what the other gives for the same responses.
C27_SameOutcome ==
    /\ (StatsDone /\ Len(calls) = 3) =>
          \A impl \in StatsOps : result = StatsResultOf(impl)
    /\ (StatsDone /\ Len(calls) < 3) => result.status = "error"

----------------------------------------------------------------------------
(* The order of the calls of the visualization tool: C28 *)

\* The statistics fetch of the tool has returned its record.
StatsFetched == repoStats # [status |-> "none"]

\* C28: the contributors call is issued only after a metadata call that
\* returned 2xx, the pull-requests call only after the contributors call; the
\* languages call only after the statistics fetch has succeeded, and the
\* commit-activity call after it; when the metadata call fails it stays the
\* only call and the invocation has ended with an error.
C28_CallOrdering ==
    /\ \A i \in DOMAIN calls :
         /\ calls[i].endpoint = "repo" => i = 1
         /\ calls[i].endpoint = "contributors" =>
               i = 2 /\ calls[1].endpoint = "repo" /\ Ok(calls[1].response)
         /\ calls[i].endpoint = "pulls" => i = 3 /\ calls[2].endpoint = "contributors"
         /\ calls[i].endpoint = "languages" =>
               i = 4 /\ calls[3].endpoint = "pulls" /\ StatsFetched
         /\ calls[i].endpoint = "commit_activity" =>
               i = 5 /\ calls[4].endpoint = "languages" /\ StatsFetched
    /\ (Len(calls) >= 1 /\ ~Ok(calls[1].response)) =>
          /\ Len(calls) = 1
          /\ op = "getGitHubRepoStats"
          /\ pc = "done"
          /\ result.status = "error"

\* The tool has made its five calls and returned its report.
C28_Witness ==
    /\ VisualizationDone
    /\ Len(calls) = 5
    /\ [i \in 1..5 |-> calls[i].endpoint] =
          <<"repo", "contributors", "pulls", "languages", "commit_activity">>

\* The metadata call failed: the tool ended on its first call.
C28_WitnessPrimaryFailed ==
    /\ tool = "repositoryVisualizationTool"
    /\ Len(calls) = 1
    /\ calls[1].endpoint = "repo"
    /\ ~Ok(calls[1].response)
    /\ pc = "done"
    /\ result.status = "error"

----------------------------------------------------------------------------
(* The requirements of an issue: C25 *)

ExtractDone == op = "extractRequirements" /\ pc = "done"

\* A cleaned sentence is kept unless it is under 10 characters long.
AtLeastMinLength(cleanSentence) == Len(cleanSentence) >= MinRequirementLength

\* C25: the requirements are the cleaned sentences with 'should', 'must' or
\* 'need', in source order, without those under 10 characters (one of exactly
\* 10 characters is kept), cut to the first 5.
C25_AsStated ==
    ExtractDone =>
        LET withWord == SelectSeq(SplitSentences(input.body), HasRequirementWord)
            cleaned == [k \in DOMAIN withWord |-> CleanSentence(withWord[k])]
            kept == SelectSeq(cleaned, AtLeastMinLength)
        IN  result.value = SubSeq(kept, 1, Min(MaxRequirements, Len(kept)))

\* What the code keeps: the cleaned sentences of more than 10 characters.
C25_MoreThanTen ==
    ExtractDone =>
        LET withWord == SelectSeq(SplitSentences(input.body), HasRequirementWord)
            cleaned == [k \in DOMAIN withWord |-> CleanSentence(withWord[k])]
            kept == SelectSeq(cleaned, LongEnough)
        IN  /\ result.value = SubSeq(kept, 1, Min(MaxRequirements, Len(kept)))
            /\ \A i \in DOMAIN result.value : Len(result.value[i]) > 10

\* Six sentences are kept and the sixth is cut off.
C25_WitnessCut ==
    /\ ExtractDone
    /\ Len(result.value) = MaxRequirements
    /\ Len(SelectSeq(SplitSentences(input.body), HasRequirementWord)) > MaxRequirements

----------------------------------------------------------------------------
(* The suggestion generators: C26 *)

SuggestDone == op \in SuggestOps /\ pc = "done"

\* The trigger rules and the fallback block of the generator that ran.
RulesOf(o) ==
    IF o = "generateSpecificFileSuggestions" THEN FileRules(input)
    ELSE IF o = "generateSpecificTestingStrategy" THEN TestingRules(input)
    ELSE DeliverableRules(input)

FallbackOf(o) ==
    IF o = "generateSpecificFileSuggestions" THEN FileFallback
    ELSE IF o = "generateSpecificTestingStrategy" THEN TestingFallback
    ELSE DeliverableFallback

\* The block of lines occurs in the text, from position p on.
BlockAt(text, block, p) ==
    p + Len(block) - 1 <= Len(text) /\ SubSeq(text, p, p + Len(block) - 1) = block

HasBlock(text, block) == \E p \in 1..Len(text) : BlockAt(text, block, p)

\* C26: the output of each generator has the lines of every rule that is
\* triggered, the lines of an earlier rule before those of a later one, no
\* line of a rule that is not triggered, and the fallback block exactly when
\* no rule is triggered; the deliverables end with the pull-request bullet.
C26_Suggestions ==
    SuggestDone =>
        LET rules == RulesOf(op)
            text == result.value
        IN  /\ \A r \in DOMAIN rules :
                  IF rules[r].triggered THEN HasBlock(text, rules[r].lines)
                  ELSE \A k \in DOMAIN rules[r].lines :
                           ~HasBlock(text, <<rules[r].lines[k]>>)
            /\ \A r, q \in DOMAIN rules :
                  (r < q /\ rules[r].triggered /\ rules[q].triggered) =>
                      \E p, t \in 1..Len(text) :
                          /\ BlockAt(text, rules[r].lines, p)
                          /\ BlockAt(text, rules[q].lines, t)
                          /\ p + Len(rules[r].lines) <= t
            /\ HasBlock(text, FallbackOf(op)) <=> (\A r \in DOMAIN rules : ~rules[r].triggered)
            /\ (\E r \in DOMAIN rules : rules[r].triggered) =>
                  \A k \in DOMAIN FallbackOf(op) : ~HasBlock(text, <<FallbackOf(op)[k]>>)
            /\ op = "generateSpecificDeliverables" => text[Len(text)] = PullRequestLine

\* Deliverables with two triggered rules and no fallback block.
C26_Witness ==
    /\ SuggestDone
    /\ op = "generateSpecificDeliverables"
    /\ Cardinality({r \in DOMAIN RulesOf(op) : RulesOf(op)[r].triggered}) >= 2
    /\ result.value[Len(result.value)] = PullRequestLine

\* A generator that fell back to its generic block.
C26_WitnessFallback ==
    /\ SuggestDone
    /\ \A r \in DOMAIN RulesOf(op) : ~RulesOf(op)[r].triggered
    /\ HasBlock(result.value, FallbackOf(op))

\* File suggestions with all five rules triggered.
C26_WitnessAllRules ==
    /\ SuggestDone
    /\ op = "generateSpecificFileSuggestions"
    /\ \A r \in DOMAIN RulesOf(op) : RulesOf(op)[r].triggered

----------------------------------------------------------------------------
(* The guide tool: C21, C22, C23 *)

\* The guide generator runs, or has returned the guide to the tool.
GuideRunning == op = "generateIssueSpecificGuide"

GuideReturned ==
    /\ tool = "goodFirstIssuesWithGuideTool"
    /\ op = "goodFirstIssuesWithGuideTool"
    /\ pc = "done"
    /\ result.status = "ok"

IsIssueCall(c) == c.endpoint = "issue"

\* The issue-detail calls of the invocation, in the order of their issue.
IssueCalls == SelectSeq(calls, IsIssueCall)

\* The call is answered, and not with a 2xx status and a JSON body.
DetailFailed(c) ==
    /\ c.response # Pending
    /\ \/ c.response.kind = "neterr"
       \/ c.response.status \notin 200..299
       \/ c.response.body.kind = "unparseable"

\* C21: the guide generator issues one issue-detail call per issue of its
\* list, in the order of the list, each call answered before the next one
\* is issued; the guide is the header, one section per issue in that order,
\* and the getting-started block; for an empty list there is no issue-detail
\* call and the guide is the document 'No Good First Issues Available'.
C21_GuideSequence ==
    /\ \A k \in 1..(Len(calls) - 1) : calls[k].response # Pending
    /\ GuideRunning =>
          LET issues == input.issuesResult.issues
          IN  /\ Len(IssueCalls) <= Len(issues)
              /\ \A k \in DOMAIN IssueCalls : IssueCalls[k].number = issues[k].number
    /\ GuideReturned =>
          LET issues == result.value.issues
              guide == result.value.guide
              n == Len(issues)
          IN  IF n = 0
              THEN /\ IssueCalls = <<>>
                   /\ Len(guide) = 1
                   /\ guide[1].kind = "document"
                   /\ guide[1].heading = "No Good First Issues Available"
              ELSE /\ Len(IssueCalls) = n
                   /\ \A k \in 1..n : /\ IssueCalls[k].number = issues[k].number
                                      /\ IssueCalls[k].response # Pending
                   /\ Len(guide) = n + 2
                   /\ guide[1].kind = "header"
                   /\ \A k \in 1..n : /\ guide[k + 1].kind = "section"
                                      /\ guide[k + 1].number = issues[k].number
                   /\ guide[n + 2] = GettingStarted(result.value.owner, result.value.repo)

\* A guide for a list of as many issues as the model has, one of whose
\* detail calls failed.
C21_Witness ==
    /\ GuideReturned
    /\ Len(result.value.issues) = MaxIssues
    /\ Len(IssueCalls) = MaxIssues
    /\ \E k \in DOMAIN IssueCalls : DetailFailed(IssueCalls[k])

\* The tool returned the fixed document for an empty list.
C21_WitnessEmpty ==
    /\ GuideReturned
    /\ Len(result.value.issues) = 0
    /\ result.value.guide[1].kind = "document"

\* C22: the guide generator does not fail whatever detail calls fail: it
\* returns a guide with a section for every issue, each with an analysis, an
\* action plan, file suggestions, a testing strategy and deliverables, and
\* the section of an issue whose detail call failed is the one the
\* placeholder record gives.
C22_GuideNeverFails ==
    /\ (tool = "goodFirstIssuesWithGuideTool"
          /\ op \in {"generateIssueSpecificGuide", "goodFirstIssuesWithGuideTool"}) =>
          result.status \in {"none", "ok"}
    /\ (GuideReturned /\ Len(result.value.issues) >= 1) =>
          LET guide == result.value.guide
          IN  \A k \in 1..Len(result.value.issues) :
                  /\ guide[k + 1].kind = "section"
                  /\ guide[k + 1].analysis.issueType # ""
                  /\ guide[k + 1].actionPlan # ""
                  /\ guide[k + 1].files # <<>>
                  /\ guide[k + 1].testing # <<>>
                  /\ guide[k + 1].deliverables # <<>>
                  /\ DetailFailed(IssueCalls[k]) =>
                        /\ guide[k + 1].analysis =
                              [issueType |-> "General Issue", patterns |-> <<>>,
                               requirements |-> <<>>]
                        /\ guide[k + 1].actionPlan = "1. **Understand the Issue**"
                        /\ guide[k + 1].files = FileFallback
                        /\ guide[k + 1].testing = TestingFallback
                        /\ guide[k + 1].deliverables =
                              Append(DeliverableFallback, PullRequestLine)

\* A guide with the section of an issue whose detail call failed and the
\* section of an issue whose details were fetched.
C22_Witness ==
    /\ GuideReturned
    /\ Len(result.value.issues) >= 2
    /\ \E k \in DOMAIN IssueCalls : DetailFailed(IssueCalls[k])
    /\ \E k \in DOMAIN IssueCalls :
          ~DetailFailed(IssueCalls[k]) /\ result.value.guide[k + 1].files # FileFallback

\* A guide all of whose detail calls failed.
C22_WitnessAllFailed ==
    /\ GuideReturned
    /\ Len(result.value.issues) = MaxIssues
    /\ \A k \in DOMAIN IssueCalls : DetailFailed(IssueCalls[k])

\* What a call asks for: the endpoint, the repository and, for the details
\* of an issue, its number.
RequestOf(c) ==
    <<c.endpoint, c.owner, c.repo, IF "number" \in DOMAIN c THEN c.number ELSE 0>>

\* No two calls of the invocation ask for the same thing.
NoRepeatedCall ==
    \A j, k \in DOMAIN calls : j < k => RequestOf(calls[j]) # RequestOf(calls[k])

\* A step issues at most one call, after the calls made so far, and leaves
\* alone what was asked and every answer that has come: a call is answered
\* once.
CallsOnlyAdded ==
    /\ Len(calls') \in {Len(calls), Len(calls) + 1}
    /\ \A k \in DOMAIN calls :
          /\ RequestOf(calls'[k]) = RequestOf(calls[k])
          /\ calls[k].response # Pending => calls'[k] = calls[k]

\* C23: within one invocation of a tool or of the workflow no call is made
\* twice, whether it failed or succeeded, and every call is answered exactly
\* once.
C23_CallsOnce ==
    /\ [](NoRepeatedCall /\ (pc = "done" => \A k \in DOMAIN calls : calls[k].response # Pending))
    /\ [][CallsOnlyAdded]_vars

\* The guide tool returned after the issues call and one detail call for
\* each issue, one of which failed.
C23_Witness ==
    /\ GuideReturned
    /\ Len(calls) = 1 + MaxIssues
    /\ \E k \in DOMAIN calls : calls[k].endpoint = "issue" /\ DetailFailed(calls[k])

\* The visualization tool returned after five calls, the contributors call
\* having failed.
C23_WitnessVisualization ==
    /\ VisualizationDone
    /\ Len(calls) = 5
    /\ ~Ok(calls[2].response)

\* The workflow returned after three calls.
C23_WitnessWorkflow ==
    /\ WorkflowDone
    /\ Len(calls) = 3

====
